---- MODULE Spec2Model ----
(***************************************************************************)
(* Model of the video-assembly pipeline of Manhwa-Video-Create.            *)
(*                                                                         *)
(* Two variants of the pipeline live in the repository:                    *)
(*   - the timing-based service (src/services/videoService.ts):            *)
(*     renderVideo -> renderWithConcat | renderWithTransitions             *)
(*   - the clip-based service (src/unnamed/part_000 animatePanels and      *)
(*     src/unnamed/part_001 renderVideo).                                  *)
(*                                                                         *)
(* Time is counted in ticks of 0.00001 s, so that the 0.01 s drop          *)
(* threshold, the crossfade lengths and the 4-decimal formatting of        *)
(* toFixed(4) are all exact integers.                                      *)
(***************************************************************************)
EXTENDS Integers, Sequences, FiniteSets, TLC

VARIABLES
    pc,            \* position of the flow: "start", "clips", "threw", "done"
    entry,         \* "app": timings come in; "direct": renderVideo is given clips
    timings,       \* PanelTiming[] handed to animatePanels / renderVideo (timing-based)
    audioDuration, \* total duration D, in ticks
    editedClips,   \* EditedClip[] (clip-based variant)
    render1,       \* outcome of the timing-based renderVideo
    render2,       \* outcome of the clip-based renderVideo
    variant,       \* which service the process runs: 1 timing-based, 2 clip-based
    ffmpeg,        \* the module-level `ffmpeg` variable: 0 (null) or an instance id
    insts,         \* the FFmpeg instances created so far, by id
    calls,         \* the renderVideo calls of the process
    preview,       \* state of the mounted PreviewPanel
    lastProgress,  \* the last encoder progress event and where it was delivered
    ai,            \* a call of an AI-backed service function and its outcome
    editor,        \* state of the mounted CropPanel and its CropEditor
    app,           \* state of the App component and of its running handlers
    aiLog          \* source images animatePanels sent to inpainting and crop detection

pipelineVars == <<pc, entry, timings, audioDuration, editedClips, render1, render2>>
runtimeVars == <<variant, ffmpeg, insts, calls, preview, lastProgress>>
uiVars == <<editor, app, aiLog>>
vars == <<pipelineVars, runtimeVars, ai, uiVars>>

(***************************************************************************)
(* Bounds of the model.                                                    *)
(***************************************************************************)
NumPanels == 2      \* panels.length
MaxTimings == 3     \* longest timing array
MaxClips == 3       \* longest clip sequence handed directly to renderVideo
MaxCalls == 2       \* renderVideo calls in one process
MaxDrags == 2       \* drags (mouse down ... mouse up) in one CropPanel session
MaxHandlers == 2    \* generation handlers started in one App session
MaxPanelLists == 2  \* panel lists the user puts together in one App session

(***************************************************************************)
(* Units and program constants.                                            *)
(***************************************************************************)
MinDuration == 1000              \* 0.01 s : duration > 0.01
TicksPerSecond == 100 * MinDuration
TransitionDuration1 == 70000     \* 0.7 s, renderWithTransitions
TransitionDuration2 == 50000     \* 0.5 s, renderVideo (clip-based)
Tolerance == MinDuration          \* 0.01 s
DefaultFps == 30

\* start times an AI timing answer is drawn from (ticks)
TimeVals == {0, 1000, 30004, 100000}
\* audio durations (ticks), all > 0
DurationVals == {31004, 200000}
\* clip durations of clip sequences given directly to renderVideo
ClipDurVals == {20000, 150000, 200000, 300000}

\* natural size of the (inpainted) panel images
ImageWidth == 800
ImageHeight == 1200

\* the (transition, animation) pairs a render is started with
SettingChoices == {<<"cut", "none">>, <<"fade", "zoom">>, <<"slideleft", "pan_down">>}

Undefined == 0     \* panels[k] for k outside the array

(***************************************************************************)
(* Small helpers.                                                          *)
(***************************************************************************)
RECURSIVE SumSeq(_)
SumSeq(s) == IF s = <<>> THEN 0 ELSE Head(s) + SumSeq(Tail(s))

Abs(x) == IF x < 0 THEN -x ELSE x

Max(a, b) == IF a > b THEN a ELSE b

\* ceil(a / b) for a >= 0, b > 0
CeilDiv(a, b) == (a + b - 1) \div b

\* Number.prototype.toFixed(4) on a value given in ticks: the value is
\* rounded to a multiple of 0.0001 s (10 ticks), half away from zero.
ToFixed4(x) == IF x >= 0 THEN ((x + 5) \div 10) * 10
                         ELSE -(((-x + 5) \div 10) * 10)

\* panels[k] (k a 0-based array index): the panel, identified by its
\* 1-based position, or undefined
PanelAt(k) == IF k < 0 \/ k >= NumPanels THEN Undefined ELSE k + 1

\* fault: keys ordered by their last occurrence
RECURSIVE FirstOccurrences_Last(_)
FirstOccurrences_Last(s) ==
    IF s = <<>> THEN <<>>
    ELSE LET rest == FirstOccurrences_Last(Tail(s))
             x == Head(s)
         IN IF \E k \in 1..Len(rest) : rest[k] = x THEN rest ELSE <<x>> \o rest

\* first-occurrence order of the keys of s (insertion order of a JS Map/Set)
RECURSIVE FirstOccurrences(_)
FirstOccurrences(s) ==
    IF s = <<>> THEN <<>>
    ELSE LET init == FirstOccurrences(SubSeq(s, 1, Len(s) - 1))
             x == s[Len(s)]
         IN IF \E k \in 1..Len(init) : init[k] = x THEN init ELSE Append(init, x)

\* position (0-based) of key x in the ordered key list
IndexOf(order, x) == (CHOOSE k \in 1..Len(order) : order[k] = x) - 1

(***************************************************************************)
(* Timeline builder.                                                       *)
(***************************************************************************)
\* fault: the last two entries both run to the end of the audio
NextStartTime_OffByOne(ts, i, D) ==
    IF i + 1 < Len(ts) THEN ts[i + 1].startTime ELSE D

\* nextStartTime of entry i (1-based)
NextStartTime(ts, i, D) ==
    IF i + 1 <= Len(ts) THEN ts[i + 1].startTime ELSE D

EntryDuration(ts, i, D) == NextStartTime(ts, i, D) - ts[i].startTime

\* the guard  panelIndex < 0 || panelIndex >= panels.length
OutOfRange(p) == (p - 1 < 0) \/ (p - 1 >= NumPanels)

\* animatePanels, line 205: panels[t.panel-1].id is evaluated for every
\* timing before any range check; on undefined it raises a TypeError
AnimateThrows(ts) ==
    \E i \in 1..Len(ts) : PanelAt(ts[i].panel - 1) = Undefined

\* fault: one pass of the processing loop per timing entry
uniquePanelIds_PerTiming(ts) ==
    [i \in 1..Len(ts) |-> PanelAt(ts[i].panel - 1)]

uniquePanelIds(ts) ==
    FirstOccurrences([i \in 1..Len(ts) |-> PanelAt(ts[i].panel - 1)])

\* the processing loop of animatePanels: for each id of the list one
\* inpaintImage call and one getSubjectCrops call, whose result is cached
ProcessPanels(ids, cache) ==
    [k \in 1..Len(ids) |-> [panel |-> ids[k], crops |-> cache[ids[k]]]]

\* the clip assembly loop of animatePanels; cache maps a panel id to its crops
RECURSIVE AssembleClips(_, _, _, _)
AssembleClips(ts, D, cache, i) ==
    IF i > Len(ts) THEN <<>>
    ELSE LET rest == AssembleClips(ts, D, cache, i + 1)
             duration == EntryDuration(ts, i, D)
         IN IF OutOfRange(ts[i].panel) THEN rest
            ELSE IF ts[i].panel \notin DOMAIN cache THEN rest
            ELSE IF duration > MinDuration
                 THEN <<[startTime |-> ts[i].startTime,
                         duration  |-> duration,
                         panelId   |-> ts[i].panel,
                         crops     |-> cache[ts[i].panel]]>> \o rest
                 ELSE rest

(***************************************************************************)
(* Crop rectangles.                                                        *)
(***************************************************************************)
Crop(x, y, w, h) == [x |-> x, y |-> y, w |-> w, h |-> h]

FullCrop == Crop(0, 0, ImageWidth, ImageHeight)
CropA == Crop(0, 0, 400, 600)
CropB == Crop(400, 600, 400, 600)

\* what getSubjectCrops can resolve to: never the empty list
DetectedCrops == {<<FullCrop>>, <<CropA, CropB>>}

\* crop lists of clips handed directly to renderVideo (EditedClip.crops is
\* any CropRect[], the empty one included)
DirectCrops == {<<>>, <<FullCrop>>}

(***************************************************************************)
(* Stream labels, tokens and filter clauses.                               *)
(*                                                                         *)
(* A label or command token is the text  s n m  wrapped in b pairs of      *)
(* square brackets (n, m = -1 when the text has no such number):           *)
(*   [v_clip_3]  = Lbl("v_clip_", 3, -1, 1)     vout = Lbl("vout",-1,-1,0)  *)
(*   [0:v]       = Lbl(":v", 0, -1, 1)          [[anim_1_0]] has b = 2      *)
(* A clause is one  <inputs>chain<output>  element of the filter graph.    *)
(***************************************************************************)
Lbl(s, n, m, b) == [s |-> s, n |-> n, m |-> m, b |-> b]

Tok(s) == Lbl(s, -1, -1, 0)

\* `[${label}]`
Bracket(l) == [l EXCEPT !.b = @ + 1]

\* label.replace(/\[|\]/g, '')
StripBrackets(l) == [l EXCEPT !.b = 0]

Clause(ins, op, name, p, out) ==
    [ins |-> ins, op |-> op, name |-> name, p |-> p, out |-> out]

getDimensions(resolution, aspectRatio) ==
    LET dimensions ==
          [r169 |-> [p720 |-> <<1280, 720>>, p1080 |-> <<1920, 1080>>, p1440 |-> <<2560, 1440>>],
           r916 |-> [p720 |-> <<720, 1280>>, p1080 |-> <<1080, 1920>>, p1440 |-> <<1440, 2560>>],
           r11  |-> [p720 |-> <<720, 720>>,  p1080 |-> <<1080, 1080>>, p1440 |-> <<1440, 1440>>],
           r43  |-> [p720 |-> <<960, 720>>,  p1080 |-> <<1440, 1080>>, p1440 |-> <<1920, 1440>>]]
    IN IF aspectRatio \in DOMAIN dimensions /\ resolution \in DOMAIN dimensions[aspectRatio]
       THEN dimensions[aspectRatio][resolution]
       ELSE dimensions.r169.p1080

getXfadeTransitionName(transition) ==
    LET mapping == [cut |-> "custom", fade |-> "fade", slideleft |-> "slideleft",
                    slideright |-> "slideright", wipeleft |-> "wipeleft",
                    wipedown |-> "wipedown"]
    IN IF transition \in DOMAIN mapping THEN mapping[transition] ELSE "fade"

\* the settings a render is started with; resolution, aspect ratio and
\* frame rate stay at the defaults of the preview panel
Settings(transition, animation) ==
    [resolution |-> "p1080", aspectRatio |-> "r169", fps |-> DefaultFps,
     transition |-> transition, animation |-> animation]

(***************************************************************************)
(* Files written to the encoder's filesystem.                              *)
(***************************************************************************)
ImageFile(name, panel) == [name |-> name, kind |-> "image", panel |-> panel]
AudioFile == [name |-> Tok("audio.wav"), kind |-> "audio", panel |-> Undefined]

\* the sequence  <<f(1), ..., f(n)>>  flattened, each f(k) a sequence
RECURSIVE Flatten(_)
Flatten(ss) == IF ss = <<>> THEN <<>> ELSE Head(ss) \o Flatten(Tail(ss))

(***************************************************************************)
(* Clip-based renderVideo (src/unnamed/part_001).                          *)
(***************************************************************************)
\* keys of the uniquePanels Map, in insertion order
uniquePanels2(clips) ==
    FirstOccurrences([i \in 1..Len(clips) |-> clips[i].panelId])

panelIdToInputIndex2(clips, panelId) == IndexOf(uniquePanels2(clips), panelId)

InputName2(k) == Lbl("input_.png", k, -1, 0)          \* `input_${k}.png`

Files2(clips) ==
    LET up == uniquePanels2(clips)
    IN [k \in 1..Len(up) |-> ImageFile(InputName2(k - 1), up[k])] \o <<AudioFile>>

Inputs2(clips) ==
    LET up == uniquePanels2(clips)
    IN Flatten([k \in 1..Len(up) |-> <<Tok("-i"), InputName2(k - 1)>>])
       \o <<Tok("-i"), Tok("audio.wav")>>

\* fault: the audio index counts one input too many
audioInputIndex2_OffByOne(clips) == Len(uniquePanels2(clips)) + 1

audioInputIndex2(clips) == Len(uniquePanels2(clips))

totalDuration(clips) == SumSeq([i \in 1..Len(clips) |-> clips[i].duration])

clipOutputStream(i) == Lbl("v_clip_", i, -1, 1)       \* `[v_clip_${i}]`

\* the clauses renderVideo appends for clip number i (0-based)
ClipClauses2(clips, i, settings) ==
    LET clip == clips[i + 1]
        dims == getDimensions(settings.resolution, settings.aspectRatio)
        numFrames == Max(1, CeilDiv(clip.duration * settings.fps, TicksPerSecond))
        sourceInputIndex == panelIdToInputIndex2(clips, clip.panelId)
        animStream(j) == Lbl("anim_", i, j, 1)        \* `[anim_${i}_${j}]`
        zoompanFilter == IF settings.animation = "pan_down" THEN "zoompan_pan_down"
                         ELSE IF settings.animation = "zoom" THEN "zoompan_zoom"
                         ELSE "scale"
        cropClause(j) ==
            LET crop == clip.crops[j + 1]
            IN Clause(<<Lbl(":v", sourceInputIndex, -1, 1)>>, "crop", zoompanFilter,
                      IF zoompanFilter = "scale"
                      THEN <<crop.w, crop.h, crop.x, crop.y>>
                      ELSE <<crop.w, crop.h, crop.x, crop.y, numFrames,
                             clip.duration, settings.fps>>,
                      Bracket(animStream(j)))         \* `[${animStream}]`
        n == Len(clip.crops)
        animatedCropStreams == [j \in 1..n |-> animStream(j - 1)]
        cropClauses == [j \in 1..n |-> cropClause(j - 1)]
    IN cropClauses \o
       (IF n > 1
        THEN <<Clause(animatedCropStreams, "hstack", "", <<n>>, Lbl("hstack_", i, -1, 1)),
               Clause(<<Lbl("hstack_", i, -1, 1)>>, "scale,pad,trim,setpts", "",
                      <<dims[1], dims[2], clip.duration>>, clipOutputStream(i))>>
        ELSE IF n = 1
        THEN <<Clause(<<animatedCropStreams[1]>>, "scale,trim,setpts", "",
                      <<dims[1], dims[2], clip.duration>>, clipOutputStream(i))>>
        ELSE <<>>)

clipVideoStreams(clips) == [i \in 1..Len(clips) |-> clipOutputStream(i - 1)]

finalVideoStream == Lbl("vout", -1, -1, 1)            \* '[vout]'

\* offset text of the i-th crossfade (i >= 1): cumulativeDuration - transitionDuration
XfadeOffset2(clips, i) ==
    SumSeq([k \in 1..i |-> clips[k].duration]) - TransitionDuration2

\* fault: the "cut" branch is missing, every transition is crossfaded
Compositor2_NoCut(clips, settings) ==
    LET cvs == clipVideoStreams(clips)
        n == Len(cvs)
        outputStream(i) == IF i = n - 1 THEN finalVideoStream ELSE Lbl("vt", i, -1, 1)
        lastStream(i) == IF i = 1 THEN cvs[1] ELSE outputStream(i - 1)
    IN IF Len(clips) = 1
       THEN <<Clause(<<cvs[1]>>, "null", "", <<>>, finalVideoStream)>>
       ELSE [i \in 1..(n - 1) |->
                Clause(<<lastStream(i), cvs[i + 1]>>, "xfade",
                       getXfadeTransitionName(settings.transition),
                       <<TransitionDuration2, XfadeOffset2(clips, i)>>,
                       outputStream(i))]

\* fault: the single-clip branch is missing
Compositor2_NoSingle(clips, settings) ==
    LET cvs == clipVideoStreams(clips)
        n == Len(cvs)
        outputStream(i) == IF i = n - 1 THEN finalVideoStream ELSE Lbl("vt", i, -1, 1)
        lastStream(i) == IF i = 1 THEN cvs[1] ELSE outputStream(i - 1)
    IN IF settings.transition = "cut"
       THEN <<Clause(cvs, "concat", "", <<n>>, finalVideoStream)>>
       ELSE [i \in 1..(n - 1) |->
                Clause(<<lastStream(i), cvs[i + 1]>>, "xfade",
                       getXfadeTransitionName(settings.transition),
                       <<TransitionDuration2, XfadeOffset2(clips, i)>>,
                       outputStream(i))]

\* step 3 of renderVideo: concatenate or crossfade the clip streams
Compositor2(clips, settings) ==
    LET cvs == clipVideoStreams(clips)
        n == Len(cvs)
        outputStream(i) == IF i = n - 1 THEN finalVideoStream ELSE Lbl("vt", i, -1, 1)
        lastStream(i) == IF i = 1 THEN cvs[1] ELSE outputStream(i - 1)
    IN IF Len(clips) = 1
       THEN <<Clause(<<cvs[1]>>, "null", "", <<>>, finalVideoStream)>>
       ELSE IF settings.transition = "cut"
       THEN <<Clause(cvs, "concat", "", <<n>>, finalVideoStream)>>
       ELSE [i \in 1..(n - 1) |->
                Clause(<<lastStream(i), cvs[i + 1]>>, "xfade",
                       getXfadeTransitionName(settings.transition),
                       <<TransitionDuration2, XfadeOffset2(clips, i)>>,
                       outputStream(i))]

FilterGraph2(clips, settings) ==
    Flatten([i \in 1..Len(clips) |-> ClipClauses2(clips, i - 1, settings)])
    \o Compositor2(clips, settings)

Command2(clips, settings) ==
    Inputs2(clips) \o
    << Tok("-filter_complex"), Tok("filterGraph"),
       Tok("-map"), StripBrackets(finalVideoStream),
       Tok("-map"), Lbl(":a", audioInputIndex2(clips), -1, 0),
       Tok("-c:v"), Tok("libx264"),
       Tok("-preset"), Tok("ultrafast"),
       Tok("-pix_fmt"), Tok("yuv420p"),
       Tok("-c:a"), Tok("aac"),
       Tok("-r"), Lbl("", settings.fps, -1, 0),
       Tok("-t"), Lbl("", ToFixed4(totalDuration(clips)), -1, 0),
       Tok("-shortest"),
       Tok("output.mp4") >>

NotRendered2 ==
    [ran |-> FALSE, settings |-> Settings("cut", "none"),
     files |-> <<>>, command |-> <<>>, graph |-> <<>>]

renderVideo2(clips, settings) ==
    [ran |-> TRUE, settings |-> settings,
     files |-> Files2(clips),
     command |-> Command2(clips, settings),
     graph |-> FilterGraph2(clips, settings)]

(***************************************************************************)
(* Timing-based renderVideo (src/services/videoService.ts).                *)
(***************************************************************************)
ImgName1(k) == Lbl("img%03d.png", k, -1, 0)           \* `img${pad3(k)}.png`
InputName1(k) == Lbl("input.png", k, -1, 0)           \* `input${k}.png`

\* the lines appended to concat.txt: one file/duration pair per kept entry
RECURSIVE ConcatEntries(_, _, _)
ConcatEntries(ts, D, i) ==
    IF i > Len(ts) THEN <<>>
    ELSE LET rest == ConcatEntries(ts, D, i + 1)
             duration == EntryDuration(ts, i, D)
         IN IF OutOfRange(ts[i].panel) THEN rest
            ELSE IF duration > MinDuration
                 THEN <<[file |-> ImgName1(ts[i].panel - 1),
                         panel |-> ts[i].panel,
                         duration |-> ToFixed4(duration)]>> \o rest
                 ELSE rest

NotRendered1 ==
    [path |-> "none", threw |-> FALSE, settings |-> Settings("cut", "none"),
     items |-> <<>>, concat |-> <<>>,
     files |-> <<>>, command |-> <<>>, graph |-> <<>>]

renderWithConcat(ts, D, settings) ==
    [path |-> "concat", threw |-> FALSE, settings |-> settings, items |-> <<>>,
     concat |-> ConcatEntries(ts, D, 1),
     files |-> <<AudioFile>>
               \o [k \in 1..NumPanels |-> ImageFile(ImgName1(k - 1), k)]
               \o <<[name |-> Tok("concat.txt"), kind |-> "concat", panel |-> Undefined]>>,
     command |-> << Tok("-f"), Tok("concat"), Tok("-safe"), Lbl("", 0, -1, 0),
                    Tok("-i"), Tok("concat.txt"),
                    Tok("-i"), Tok("audio.wav"),
                    Tok("-vf"), Tok("videoFilter"),
                    Tok("-r"), Lbl("", settings.fps, -1, 0),
                    Tok("-c:v"), Tok("libx264"), Tok("-c:a"), Tok("aac"),
                    Tok("-shortest"),
                    Tok("output.mp4") >>,
     graph |-> <<>>]

\* panelTimings.map(...).filter(item => item.duration > 0.01)
timelineItems(ts, D) ==
    SelectSeq([i \in 1..Len(ts) |->
                 [panel |-> PanelAt(ts[i].panel - 1),
                  duration |-> EntryDuration(ts, i, D)]],
              LAMBDA item : item.duration > MinDuration)

\* Array.from(new Map(items.map(item => [item.panel.id, item.panel])).values())
uniquePanels1(items) ==
    FirstOccurrences([i \in 1..Len(items) |-> items[i].panel])

panelIdToInputIndex1(items, panel) == IndexOf(uniquePanels1(items), panel)

\* item.panel.id on an undefined panel raises a TypeError (line 133)
TransitionsThrows(ts, D) ==
    \E i \in 1..Len(timelineItems(ts, D)) :
        timelineItems(ts, D)[i].panel = Undefined

clipStreams(items) == [i \in 1..Len(items) |-> Lbl("clip", i - 1, -1, 1)]

\* part B of renderWithTransitions, then the single-item clause
Compositor1(items, settings) ==
    LET cs == clipStreams(items)
        n == Len(cs)
        outputStream(i) == IF i = n - 1 THEN Lbl("vout", -1, -1, 1)
                                        ELSE Lbl("vt", i, -1, 1)
        lastStream(i) == IF i = 1 THEN cs[1] ELSE outputStream(i - 1)
    IN [i \in 1..(n - 1) |->
           Clause(<<lastStream(i), cs[i + 1]>>, "xfade",
                  getXfadeTransitionName(settings.transition),
                  <<TransitionDuration1>>, outputStream(i))]
       \o (IF n = 1
           THEN <<Clause(<<cs[1]>>, "null", "", <<>>, Lbl("vout", -1, -1, 1))>>
           ELSE <<>>)

FilterGraph1(items, settings) ==
    LET dims == getDimensions(settings.resolution, settings.aspectRatio)
    IN [i \in 1..Len(items) |->
           Clause(<<Lbl(":v", panelIdToInputIndex1(items, items[i].panel), -1, 1)>>,
                  "scale,pad,format,trim", "",
                  <<dims[1], dims[2], items[i].duration>>,
                  Lbl("clip", i - 1, -1, 1))]
       \o Compositor1(items, settings)

\* the value of the first -map argument
VideoMap1(items) ==
    IF Len(items) > 1 THEN Lbl("vout", -1, -1, 1)
    ELSE IF Len(items) = 1 THEN clipStreams(items)[1]
    ELSE Tok("undefined")

renderWithTransitions(ts, D, settings) ==
    LET items == timelineItems(ts, D)
        up == uniquePanels1(items)
    IN IF TransitionsThrows(ts, D)
       THEN [NotRendered1 EXCEPT !.path = "transitions", !.threw = TRUE,
                                 !.settings = settings, !.items = items]
       ELSE
        [path |-> "transitions", threw |-> FALSE, settings |-> settings,
         items |-> items, concat |-> <<>>,
         files |-> [k \in 1..Len(up) |-> ImageFile(InputName1(k - 1), up[k])]
                   \o <<AudioFile>>,
         command |-> Flatten([k \in 1..Len(up) |->
                        <<Tok("-loop"), Lbl("", 1, -1, 0),
                          Tok("-framerate"), Lbl("", settings.fps, -1, 0),
                          Tok("-i"), InputName1(k - 1)>>])
                     \o << Tok("-i"), Tok("audio.wav"),
                           Tok("-filter_complex"), Tok("filterGraph"),
                           Tok("-map"), VideoMap1(items),
                           Tok("-map"), Lbl(":a", Len(up), -1, 0),
                           Tok("-c:v"), Tok("libx264"), Tok("-c:a"), Tok("aac"),
                           Tok("-r"), Lbl("", settings.fps, -1, 0),
                           Tok("-t"), Lbl("", ToFixed4(D), -1, 0),
                           Tok("-movflags"), Tok("+faststart"),
                           Tok("output.mp4") >>,
         graph |-> FilterGraph1(items, settings)]

renderVideo1(ts, D, settings) ==
    IF settings.transition = "cut" \/ Len(ts) <= 1
    THEN renderWithConcat(ts, D, settings)
    ELSE renderWithTransitions(ts, D, settings)

(***************************************************************************)
(* State machine.                                                          *)
(***************************************************************************)
RECURSIVE SeqsUpTo(_, _)
SeqsUpTo(S, n) ==
    IF n = 0 THEN {<<>>}
    ELSE LET shorter == SeqsUpTo(S, n - 1)
         IN shorter \cup {Append(s, x) : s \in {t \in shorter : Len(t) = n - 1}, x \in S}

TimingEntries == [panel : 0..(NumPanels + 1), startTime : TimeVals]

\* clip sequences given directly to renderVideo: contiguous from 0
RECURSIVE Contiguous(_, _)
Contiguous(cs, start) ==
    IF cs = <<>> THEN <<>>
    ELSE <<[startTime |-> start, duration |-> Head(cs).duration,
            panelId |-> Head(cs).panelId, crops |-> Head(cs).crops]>>
         \o Contiguous(Tail(cs), start + Head(cs).duration)

DirectClipEntries == [duration : ClipDurVals, panelId : 1..NumPanels, crops : DirectCrops]

\* no render has been requested and no AI function is under test
\* no progress callback has run yet
NoProgress == [call |-> 0, to |-> 0, value |-> 0, encoder |-> FALSE]

RuntimeIdle ==
    /\ variant = 0
    /\ ffmpeg = 0
    /\ insts = <<>>
    /\ calls = <<>>
    /\ preview = [mount |-> 1, isRendering |-> FALSE, videoUrl |-> FALSE]
    /\ lastProgress = NoProgress

NoAiCall == [fn |-> "none", done |-> FALSE]

\* no CropPanel and no App are mounted, animatePanels has called no service
NoEditor == [mounted |-> FALSE]
NoApp == [mounted |-> FALSE]
UiIdle ==
    /\ editor = NoEditor
    /\ app = NoApp
    /\ aiLog = <<>>

Init ==
    /\ RuntimeIdle
    /\ ai = NoAiCall
    /\ UiIdle
    /\ pc = "start"
    /\ render1 = NotRendered1
    /\ render2 = NotRendered2
    /\ \/ /\ entry = "app"
          /\ timings \in SeqsUpTo(TimingEntries, MaxTimings)
          /\ audioDuration \in DurationVals
          /\ editedClips = <<>>
       \/ /\ entry = "direct"
          /\ timings = <<>>
          /\ \E cs \in SeqsUpTo(DirectClipEntries, MaxClips) \ {<<>>} :
                /\ editedClips = Contiguous(cs, 0)
                /\ audioDuration = totalDuration(cs)

\* handleGenerateVoiceover's call of animatePanels failing on line 205
AnimatePanelsThrows ==
    /\ pc = "start" /\ entry = "app"
    /\ AnimateThrows(timings)
    /\ pc' = "threw"
    /\ UNCHANGED <<entry, timings, audioDuration, editedClips, render1, render2,
                   runtimeVars, ai, uiVars>>

\* animatePanels: detect crops once per unique panel, then assemble the clips
AnimatePanels ==
    /\ pc = "start" /\ entry = "app"
    /\ ~AnimateThrows(timings)
    /\ \E cache \in [{uniquePanelIds(timings)[k] : k \in 1..Len(uniquePanelIds(timings))}
                        -> DetectedCrops] :
          /\ aiLog' = ProcessPanels(uniquePanelIds(timings), cache)
          /\ editedClips' = AssembleClips(timings, audioDuration, cache, 1)
    /\ pc' = "clips"
    /\ UNCHANGED <<entry, timings, audioDuration, render1, render2, runtimeVars, ai,
                   editor, app>>

\* PreviewPanel.handleRenderVideo (clip-based) -> renderVideo
RenderVideo2 ==
    /\ \/ pc = "clips"
       \/ pc = "start" /\ entry = "direct"
    /\ Len(editedClips) # 0
    /\ \E sc \in SettingChoices :
          render2' = renderVideo2(editedClips, Settings(sc[1], sc[2]))
    /\ pc' = "done"
    /\ UNCHANGED <<entry, timings, audioDuration, editedClips, render1, runtimeVars, ai, uiVars>>

\* PreviewPanel.handleRenderVideo (timing-based) -> renderVideo
RenderVideo1 ==
    /\ pc = "start" /\ entry = "app"
    /\ audioDuration # 0
    /\ \E sc \in SettingChoices :
          render1' = renderVideo1(timings, audioDuration, Settings(sc[1], sc[2]))
    /\ pc' = "done"
    /\ UNCHANGED <<entry, timings, audioDuration, editedClips, render2, runtimeVars, ai, uiVars>>

Next ==
    \/ AnimatePanelsThrows
    \/ AnimatePanels
    \/ RenderVideo2
    \/ RenderVideo1

Spec == Init /\ [][Next]_vars

(***************************************************************************)
(* Vocabulary of the properties.                                           *)
(***************************************************************************)
AllInRange(ts) == \A i \in 1..Len(ts) : ~OutOfRange(ts[i].panel)

StrictlyIncreasing(ts) ==
    \A i \in 1..(Len(ts) - 1) : ts[i].startTime < ts[i + 1].startTime

\* every clip ends where the next one starts
ClipsContiguous(clips) ==
    \A i \in 1..(Len(clips) - 1) :
        clips[i].startTime + clips[i].duration = clips[i + 1].startTime

ItemsDuration(items) == SumSeq([i \in 1..Len(items) |-> items[i].duration])

Animated == pc = "clips" /\ entry = "app"

RanTransitions == render1.path = "transitions" /\ ~render1.threw

\* no entry is dropped by the 0.01 s threshold, except possibly a last
\* one that ends within 0.01 s of D
WellSpaced(ts, D) ==
    /\ Len(ts) >= 1
    /\ ts[1].startTime = 0
    /\ \A i \in 1..(Len(ts) - 1) : ts[i + 1].startTime - ts[i].startTime > MinDuration
    /\ D - ts[Len(ts)].startTime >= -Tolerance

(***************************************************************************)
(* C1 (as stated): for every timing array with in-range panel indices and  *)
(* strictly increasing startTimes and every total duration D, the clips    *)
(* of animatePanels and the timeline items of renderWithTransitions have   *)
(* durations that sum to D within 0.01 s, and every clip's startTime +     *)
(* duration equals the next clip's startTime.                              *)
(***************************************************************************)
C1_AsStated ==
    (entry = "app" /\ AllInRange(timings) /\ StrictlyIncreasing(timings)) =>
        /\ Animated =>
              /\ Abs(totalDuration(editedClips) - audioDuration) <= Tolerance
              /\ ClipsContiguous(editedClips)
        /\ RanTransitions =>
              Abs(ItemsDuration(render1.items) - audioDuration) <= Tolerance

(***************************************************************************)
(* C1 (amended): for every non-empty timing array with in-range panel      *)
(* indices whose first startTime is 0, whose consecutive startTimes grow   *)
(* by more than 0.01 s and whose last startTime exceeds D by at most       *)
(* 0.01 s, the clips' durations sum to D within 0.01 s and every clip's    *)
(* startTime + duration equals the next clip's startTime.                  *)
(***************************************************************************)
C1_TimelineSums ==
    (entry = "app" /\ AllInRange(timings) /\ WellSpaced(timings, audioDuration)) =>
        /\ Animated =>
              /\ Abs(totalDuration(editedClips) - audioDuration) <= Tolerance
              /\ ClipsContiguous(editedClips)
        /\ RanTransitions =>
              Abs(ItemsDuration(render1.items) - audioDuration) <= Tolerance

C1_Witness ==
    /\ Animated
    /\ AllInRange(timings) /\ WellSpaced(timings, audioDuration)
    /\ Len(timings) = 3
    /\ Len(editedClips) = 3

(***************************************************************************)
(* C2 (as stated): a timing entry whose panel index lies outside           *)
(* [1, panelCount] is dropped without an exception, and the other entries  *)
(* are still turned into clips, in animatePanels and in both render paths  *)
(* of the timing-based service.                                            *)
(***************************************************************************)
KeptEntries(ts, D) ==
    {i \in 1..Len(ts) : ~OutOfRange(ts[i].panel) /\ EntryDuration(ts, i, D) > MinDuration}

C2_AsStated ==
    (entry = "app" /\ ~AllInRange(timings)) =>
        /\ pc # "threw"
        /\ Animated =>
              Len(editedClips) = Cardinality(KeptEntries(timings, audioDuration))
        /\ render1.path # "none" => ~render1.threw
        /\ render1.path = "concat" =>
              Len(render1.concat) = Cardinality(KeptEntries(timings, audioDuration))
        /\ RanTransitions =>
              Len(render1.items) = Cardinality(KeptEntries(timings, audioDuration))

(***************************************************************************)
(* Compositor vocabulary.                                                  *)
(***************************************************************************)
XfadeClauses(graph) == SelectSeq(graph, LAMBDA c : c.op = "xfade")

ClauseWithOp(graph, op) == SelectSeq(graph, LAMBDA c : c.op = op)

\* durations of the first i elements, summed
Cumulative(durs, i) == SumSeq(SubSeq(durs, 1, i))

ClipDurations(clips) == [i \in 1..Len(clips) |-> clips[i].duration]

\* Duration of the stream labelled l, given the clip streams and their
\* durations: a null clause keeps its input's duration, a concat adds its
\* inputs up, a crossfade lasts its offset (0 when none is written) plus
\* the duration of its right-hand input.
RECURSIVE StreamDuration(_, _, _, _)
StreamDuration(graph, streams, durs, l) ==
    IF \E k \in 1..Len(streams) : streams[k] = l
    THEN durs[CHOOSE k \in 1..Len(streams) : streams[k] = l]
    ELSE LET c == graph[CHOOSE k \in 1..Len(graph) : graph[k].out = l]
         IN IF c.op = "null" THEN StreamDuration(graph, streams, durs, c.ins[1])
            ELSE IF c.op = "concat"
            THEN SumSeq([k \in 1..Len(c.ins) |->
                            StreamDuration(graph, streams, durs, c.ins[k])])
            ELSE (IF Len(c.p) >= 2 THEN c.p[2] ELSE 0)
                 + StreamDuration(graph, streams, durs, c.ins[2])

VOut == Lbl("vout", -1, -1, 1)

VClipStreams(n) == [i \in 1..n |-> Lbl("v_clip_", i - 1, -1, 1)]
ClipStreams(n) == [i \in 1..n |-> Lbl("clip", i - 1, -1, 1)]

\* duration of [vout] in the clip-based render
CompositedDuration2 ==
    StreamDuration(render2.graph, VClipStreams(Len(editedClips)),
                   ClipDurations(editedClips), VOut)

\* duration of [vout] in renderWithTransitions
CompositedDuration1 ==
    StreamDuration(render1.graph, ClipStreams(Len(render1.items)),
                   ClipDurations(render1.items), VOut)

Crossfaded2 ==
    render2.ran /\ render2.settings.transition # "cut" /\ Len(editedClips) >= 2

Crossfaded1 == RanTransitions /\ Len(render1.items) >= 2

\* the crossfade clauses of a graph carry the offsets the claim describes
OffsetsAsClaimed(graph, durs) ==
    LET x == XfadeClauses(graph)
    IN /\ Len(x) = Len(durs) - 1
       /\ \A i \in 1..Len(x) :
             /\ Len(x[i].p) = 2
             /\ x[i].p[2] = Cumulative(durs, i) - x[i].p[1]
             /\ x[i].p[2] >= 0

(***************************************************************************)
(* C3 (as stated): with a non-cut transition and at least 2 clips, the     *)
(* i-th crossfade clause carries an offset equal to the summed durations   *)
(* of clips 0..i-1 minus the crossfade duration, and that offset is        *)
(* non-negative.                                                           *)
(***************************************************************************)
C3_AsStated ==
    /\ Crossfaded2 => OffsetsAsClaimed(render2.graph, ClipDurations(editedClips))
    /\ Crossfaded1 => OffsetsAsClaimed(render1.graph, ClipDurations(render1.items))

(***************************************************************************)
(* C4 (as stated): with a non-cut transition and at least 2 clips, the     *)
(* final stream of the crossfade chain lasts the total target duration     *)
(* (the sum of the clip durations) within 0.01 s.                          *)
(***************************************************************************)
C4_AsStated ==
    /\ Crossfaded2 =>
          Abs(CompositedDuration2 - totalDuration(editedClips)) <= Tolerance
    /\ Crossfaded1 =>
          Abs(CompositedDuration1 - ItemsDuration(render1.items)) <= Tolerance

(***************************************************************************)
(* C5: renders with transition = "cut".                                    *)
(***************************************************************************)
CutRendered2 == render2.ran /\ render2.settings.transition = "cut"

CutRendered1 == render1.path = "concat" /\ render1.settings.transition = "cut"

\* indices of the timing entries that become clips, in timeline order
KeptIndices(ts, D) ==
    SelectSeq([i \in 1..Len(ts) |-> i], LAMBDA i : i \in KeptEntries(ts, D))

\* one concat clause takes all clip streams in timeline order
ConcatInOrder2 ==
    Len(editedClips) >= 2 =>
        LET c == ClauseWithOp(render2.graph, "concat")
        IN /\ Len(c) = 1
           /\ c[1].ins = VClipStreams(Len(editedClips))
           /\ c[1].out = VOut

\* concat.txt lists the kept entries' panels in timeline order
ConcatInOrder1 ==
    LET k == KeptIndices(timings, audioDuration)
    IN /\ Len(render1.concat) = Len(k)
       /\ \A j \in 1..Len(k) : render1.concat[j].panel = timings[k[j]].panel

ConcatDuration1 ==
    SumSeq([j \in 1..Len(render1.concat) |-> render1.concat[j].duration])

KeptDuration(ts, D) ==
    LET k == KeptIndices(ts, D)
    IN SumSeq([j \in 1..Len(k) |-> EntryDuration(ts, k[j], D)])

(***************************************************************************)
(* C5 (as stated): with transition = "cut" the compositor concatenates     *)
(* all clip streams in timeline order, emits no crossfade clause, and the  *)
(* composited duration equals the sum of the clip durations exactly.       *)
(***************************************************************************)
C5_AsStated ==
    /\ CutRendered2 =>
          /\ XfadeClauses(render2.graph) = <<>>
          /\ ConcatInOrder2
          /\ CompositedDuration2 = totalDuration(editedClips)
    /\ CutRendered1 =>
          /\ XfadeClauses(render1.graph) = <<>>
          /\ ConcatInOrder1
          /\ ConcatDuration1 = KeptDuration(timings, audioDuration)

(***************************************************************************)
(* C5 (amended): with transition = "cut" the compositor concatenates all   *)
(* clip streams in timeline order and emits no crossfade clause; the       *)
(* composited duration equals the sum of the clip durations exactly in     *)
(* the clip-based renderVideo, and in renderWithConcat it is the sum of    *)
(* the clip durations each rounded to 4 decimals (at most 0.00005 s off    *)
(* per clip).                                                              *)
(***************************************************************************)
C5_CutConcatenates ==
    /\ CutRendered2 =>
          /\ XfadeClauses(render2.graph) = <<>>
          /\ ConcatInOrder2
          /\ CompositedDuration2 = totalDuration(editedClips)
    /\ CutRendered1 =>
          /\ XfadeClauses(render1.graph) = <<>>
          /\ ConcatInOrder1
          /\ LET k == KeptIndices(timings, audioDuration)
             IN \A j \in 1..Len(k) :
                   /\ render1.concat[j].duration % 10 = 0
                   /\ 2 * Abs(render1.concat[j].duration
                              - EntryDuration(timings, k[j], audioDuration)) <= 10
          /\ 2 * Abs(ConcatDuration1 - KeptDuration(timings, audioDuration))
                <= 10 * Len(render1.concat)

C5_Witness ==
    /\ CutRendered2
    /\ Len(editedClips) = 3
    /\ CompositedDuration2 = totalDuration(editedClips)

(***************************************************************************)
(* C6: for every timeline of exactly one clip the compositor emits no      *)
(* concat and no crossfade, only a null pass-through of the clip's         *)
(* stream, and the stream selected by the video -map is the unmodified     *)
(* single-clip stream.                                                     *)
(***************************************************************************)
\* the argument of the k-th -map of a command
MapArg(cmd, k) ==
    LET maps == SelectSeq([i \in 1..Len(cmd) |-> i], LAMBDA i : cmd[i] = Tok("-map"))
    IN cmd[maps[k] + 1]

\* clauses of the compositor
CompositorClauses(graph) ==
    SelectSeq(graph, LAMBDA c : c.op \in {"null", "concat", "xfade"})

\* the stream a label stands for once null pass-throughs are undone
\* (labels compared without their brackets)
RECURSIVE Unmodified(_, _)
Unmodified(graph, l) ==
    IF \E k \in 1..Len(graph) :
          graph[k].op = "null" /\ StripBrackets(graph[k].out) = StripBrackets(l)
    THEN Unmodified(graph,
            graph[CHOOSE k \in 1..Len(graph) :
                     graph[k].op = "null"
                     /\ StripBrackets(graph[k].out) = StripBrackets(l)].ins[1])
    ELSE StripBrackets(l)

C6_SingleClipIdentity ==
    /\ (render2.ran /\ Len(editedClips) = 1) =>
          /\ CompositorClauses(render2.graph)
                = <<Clause(<<Lbl("v_clip_", 0, -1, 1)>>, "null", "", <<>>, VOut)>>
          /\ Unmodified(render2.graph, MapArg(render2.command, 1))
                = Lbl("v_clip_", 0, -1, 0)
    /\ (RanTransitions /\ Len(render1.items) = 1) =>
          /\ CompositorClauses(render1.graph)
                = <<Clause(<<Lbl("clip", 0, -1, 1)>>, "null", "", <<>>, VOut)>>
          /\ Unmodified(render1.graph, MapArg(render1.command, 1))
                = Lbl("clip", 0, -1, 0)

\* a two-entry timing array whose second entry is dropped, crossfade requested
C6_Witness ==
    /\ RanTransitions
    /\ Len(timings) = 2
    /\ Len(render1.items) = 1
    /\ Unmodified(render1.graph, MapArg(render1.command, 1)) = Lbl("clip", 0, -1, 0)

(***************************************************************************)
(* C7: the asset deduplicator gives each distinct source image exactly     *)
(* one input slot, the slots are 0..k-1 in order of first occurrence in    *)
(* the clip sequence, and every clip's image has a slot.  (That a second   *)
(* run yields the same assignment is what being a function of the clip     *)
(* sequence means; the check below is on the assignment itself.)           *)
(***************************************************************************)
FirstIndex(ids, x) ==
    CHOOSE i \in 1..Len(ids) : ids[i] = x /\ \A j \in 1..(i - 1) : ids[j] # x

SlotsByFirstOccurrence(ids, slot(_)) ==
    LET distinct == {ids[i] : i \in 1..Len(ids)}
    IN /\ {slot(x) : x \in distinct} = 0..(Cardinality(distinct) - 1)
       /\ \A x, y \in distinct : x # y => slot(x) # slot(y)
       /\ \A x, y \in distinct :
             FirstIndex(ids, x) < FirstIndex(ids, y) => slot(x) < slot(y)

PanelIds2 == [i \in 1..Len(editedClips) |-> editedClips[i].panelId]
PanelIds1 == [i \in 1..Len(render1.items) |-> render1.items[i].panel]

\* the image clauses of the graph: those that read an input slot [k:v]
ReadsSlot(c) == Len(c.ins) = 1 /\ c.ins[1].s = ":v"

C7_SlotAssignment ==
    /\ render2.ran =>
          /\ SlotsByFirstOccurrence(PanelIds2,
                LAMBDA x : panelIdToInputIndex2(editedClips, x))
          \* the slot a clip's clauses read is the slot of the clip's image
          /\ \A k \in 1..Len(render2.graph) :
                ReadsSlot(render2.graph[k]) =>
                   render2.graph[k].ins[1].n
                     = panelIdToInputIndex2(editedClips,
                          PanelIds2[render2.graph[k].out.n + 1])
    /\ RanTransitions =>
          /\ SlotsByFirstOccurrence(PanelIds1,
                LAMBDA x : panelIdToInputIndex1(render1.items, x))
          /\ \A k \in 1..Len(render1.graph) :
                ReadsSlot(render1.graph[k]) =>
                   render1.graph[k].ins[1].n
                     = panelIdToInputIndex1(render1.items,
                          PanelIds1[render1.graph[k].out.n + 1])

\* panel 2 is first seen after a panel that occurs again later
C7_Witness ==
    /\ render2.ran
    /\ Len(editedClips) = 3
    /\ editedClips[1].panelId = 2
    /\ editedClips[2].panelId = 1
    /\ editedClips[3].panelId = 2
    /\ panelIdToInputIndex2(editedClips, 2) = 0
    /\ panelIdToInputIndex2(editedClips, 1) = 1

(***************************************************************************)
(* C8 (as stated): for a clip with zero crop regions renderVideo emits     *)
(* the same per-clip filter clauses as for the same clip with one crop     *)
(* region spanning the full image (x=0, y=0, w=imageWidth, h=imageHeight). *)
(***************************************************************************)
\* the clauses of the graph that belong to clip number i (0-based)
ClausesOfClip(graph, i) ==
    SelectSeq(graph, LAMBDA c : c.out.s \in {"anim_", "hstack_", "v_clip_"} /\ c.out.n = i)

WithFullCrop(clips, i) == [clips EXCEPT ![i].crops = <<FullCrop>>]

C8_AsStated ==
    render2.ran =>
        \A i \in 1..Len(editedClips) :
            editedClips[i].crops = <<>> =>
                ClausesOfClip(render2.graph, i - 1)
                  = ClausesOfClip(FilterGraph2(WithFullCrop(editedClips, i),
                                               render2.settings), i - 1)

(***************************************************************************)
(* C9: the command declares exactly one -i input per unique source image,  *)
(* in slot order, each naming the file written for that slot, followed by  *)
(* exactly one -i input for the audio track; the audio -map references     *)
(* input index k, the number of unique image inputs.                       *)
(***************************************************************************)
\* the arguments of the -i options of a command, in order
InputArgs(cmd) ==
    LET at == SelectSeq([i \in 1..Len(cmd) |-> i], LAMBDA i : cmd[i] = Tok("-i"))
    IN [j \in 1..Len(at) |-> cmd[at[j] + 1]]

InputsAsDeclared(cmd, files, graph, ids) ==
    LET distinct == {ids[i] : i \in 1..Len(ids)}
        k == Cardinality(distinct)
        ins == InputArgs(cmd)
    IN /\ Len(ins) = k + 1
       /\ Len(files) = k + 1
       /\ \A j \in 1..k :
             /\ ins[j] = files[j].name
             /\ files[j].kind = "image"
             /\ files[j].panel \in distinct
       /\ \A i, j \in 1..k : i # j => files[i].name # files[j].name
                                     /\ files[i].panel # files[j].panel
       /\ ins[k + 1] = Tok("audio.wav")
       /\ files[k + 1].name = ins[k + 1] /\ files[k + 1].kind = "audio"
       \* the file at input index n holds the image of every clip that reads [n:v]
       /\ \A c \in 1..Len(graph) :
             ReadsSlot(graph[c]) =>
                files[graph[c].ins[1].n + 1].panel = ids[graph[c].out.n + 1]
       /\ MapArg(cmd, 2) = Lbl(":a", k, -1, 0)

C9_InputDeclarations ==
    /\ render2.ran =>
          InputsAsDeclared(render2.command, render2.files, render2.graph, PanelIds2)
    /\ RanTransitions =>
          InputsAsDeclared(render1.command, render1.files, render1.graph, PanelIds1)

C9_Witness ==
    /\ render2.ran
    /\ Len(editedClips) = 3
    /\ Cardinality({editedClips[i].panelId : i \in 1..3}) = 2
    /\ \A i \in 1..3 : editedClips[i].crops # <<>>
    /\ MapArg(render2.command, 2) = Lbl(":a", 2, -1, 0)

(***************************************************************************)
(* C10 (as stated): for every clip count >= 1 and every transition, the    *)
(* video -map argument selects the compositor's final stream: a label      *)
(* that some clause of the graph emits and that no clause consumes         *)
(* (labels compared without their brackets).                               *)
(***************************************************************************)
SelectsFinalStream(cmd, graph) ==
    LET sel == StripBrackets(MapArg(cmd, 1))
    IN /\ \E k \in 1..Len(graph) : StripBrackets(graph[k].out) = sel
       /\ \A k \in 1..Len(graph) :
             \A j \in 1..Len(graph[k].ins) : StripBrackets(graph[k].ins[j]) # sel

C10_AsStated ==
    /\ (render2.ran /\ Len(editedClips) >= 1) =>
          SelectsFinalStream(render2.command, render2.graph)
    /\ (RanTransitions /\ Len(render1.items) >= 1) =>
          SelectsFinalStream(render1.command, render1.graph)

(***************************************************************************)
(* C11 (as stated): every command renderVideo passes to the encoder, for   *)
(* every transition and clip count, contains an output duration clamp -t   *)
(* whose value is the total target duration, the audio duration.           *)
(***************************************************************************)
\* the command has a -t option whose argument is D written with 4 decimals
ClampsTo(cmd, D) ==
    \E k \in 1..(Len(cmd) - 1) :
        cmd[k] = Tok("-t") /\ cmd[k + 1] = Lbl("", ToFixed4(D), -1, 0)

C11_AsStated ==
    /\ render2.ran => ClampsTo(render2.command, audioDuration)
    /\ (render1.path # "none" /\ ~render1.threw) =>
          ClampsTo(render1.command, audioDuration)

(***************************************************************************)
(* Render orchestrator: loadFFmpeg and the file traffic of renderVideo.    *)
(*                                                                         *)
(* A render is a renderVideo call; it runs through                         *)
(*   idle -> loading -> write -> exec -> read -> cleanup -> return -> done *)
(* or ends in "failed" when one of its awaited steps rejects.              *)
(***************************************************************************)
\* the clips / timings of the renders of this part of the model
SampleClipsOne ==
    Contiguous(<<[duration |-> 150000, panelId |-> 1, crops |-> <<FullCrop>>]>>, 0)
SampleClipsTwo ==
    Contiguous(<<[duration |-> 150000, panelId |-> 1, crops |-> <<FullCrop>>],
                 [duration |-> 200000, panelId |-> 2, crops |-> <<FullCrop>>]>>, 0)
SampleTimings ==
    <<[panel |-> 1, startTime |-> 0], [panel |-> 2, startTime |-> 100000]>>

\* what a render is asked to do: for the clip-based service a clip
\* sequence, for the timing-based one a transition
Jobs(v) == IF v = 2 THEN {"one", "two"} ELSE {"cut", "fade"}

\* names of the files the render writes before it runs the encoder
InputNames(v, job) ==
    LET files == IF v = 2
                 THEN Files2(IF job = "one" THEN SampleClipsOne ELSE SampleClipsTwo)
                 ELSE renderVideo1(SampleTimings, 200000, Settings(job, "none")).files
    IN {files[i].name : i \in 1..Len(files)}

OutputName == Tok("output.mp4")

\* file.name.endsWith(ext) for the names the renders use
EndsWith(name, ext) ==
    \/ ext = ".png" /\ name.s \in {"img%03d.png", "input.png", "input_.png"}
    \/ ext = ".wav" /\ name.s = "audio.wav"
    \/ ext = ".txt" /\ name.s = "concat.txt"
    \/ ext = ".mp4" /\ name.s = "output.mp4"

\* fault: the cleanup of the timing-based service forgets the .txt files
Deletable_NoTxt(v, name) ==
    IF v = 2 THEN TRUE
    ELSE EndsWith(name, ".png") \/ EndsWith(name, ".wav") \/ name = OutputName

\* the files the cleanup loop deletes (no entry of the listing is a directory)
Deletable(v, name) ==
    IF v = 2 THEN TRUE
    ELSE EndsWith(name, ".png") \/ EndsWith(name, ".wav")
         \/ EndsWith(name, ".txt") \/ name = OutputName

\* encoder progress values, in thousandths
ProgressVals == {375, 1000}

\* Math.round(progress * 100)
RoundPercent(p) == (p + 5) \div 10

\* onProgress(value) called by renderVideo call c itself
OwnProgress(c, cb, value) ==
    [call |-> c, to |-> cb, value |-> value, encoder |-> FALSE]

IdleCall ==
    [pc |-> "idle", cb |-> 0, job |-> "", created |-> 0, inst |-> 0,
     wrote |-> {}, data |-> 0, blob |-> 0, result |-> "none",
     execCode |-> 0, cleanupFailed |-> FALSE, failedAt |-> ""]

NewInstance(cb) == [loaded |-> FALSE, handler |-> cb, fs |-> {}]

FsNames(i) == {f.name : f \in insts[i].fs}

\* writeFile: the named files now hold what call c wrote
WriteFiles(fs, names, c) ==
    {f \in fs : f.name \notin names} \cup {[name |-> n, by |-> c] : n \in names}

\* the next call of the process
NextCall(c) ==
    /\ c \in DOMAIN calls
    /\ calls[c].pc = "idle"
    /\ \A d \in 1..(c - 1) : calls[d].pc # "idle"

InitRuntime ==
    /\ pc = "runtime" /\ entry = "runtime"
    /\ timings = <<>> /\ audioDuration = 0 /\ editedClips = <<>>
    /\ render1 = NotRendered1 /\ render2 = NotRendered2
    /\ ai = NoAiCall
    /\ UiIdle
    /\ variant \in {1, 2}
    /\ ffmpeg = 0
    /\ insts = <<>>
    /\ calls = [c \in 1..MaxCalls |-> IdleCall]
    /\ preview = [mount |-> 1, isRendering |-> FALSE, videoUrl |-> FALSE]
    /\ lastProgress = NoProgress

\* renderVideo up to the first await of loadFFmpeg: reuse the loaded
\* instance, or create one and register the log and progress handlers
BeginRender(c, cb, job) ==
    IF ffmpeg # 0 /\ insts[ffmpeg].loaded
    THEN /\ calls' = [calls EXCEPT ![c] = [@ EXCEPT !.pc = "write", !.cb = cb,
                                              !.job = job, !.inst = ffmpeg]]
         /\ lastProgress' = OwnProgress(c, cb, 0)
         /\ UNCHANGED <<ffmpeg, insts>>
    ELSE /\ insts' = Append(insts, NewInstance(cb))
         /\ ffmpeg' = Len(insts) + 1
         /\ calls' = [calls EXCEPT ![c] = [@ EXCEPT !.pc = "loading", !.cb = cb,
                                              !.job = job, !.created = Len(insts) + 1]]
         /\ UNCHANGED lastProgress

\* the catch / finally of handleRenderVideo
RenderFailed(c, at) ==
    /\ calls' = [calls EXCEPT ![c] = [@ EXCEPT !.pc = "failed", !.result = "error",
                                              !.failedAt = at]]
    /\ preview' = [preview EXCEPT !.isRendering = FALSE]

\* renderVideo called by any caller, whatever the other calls are doing
CallRenderVideo(c) ==
    /\ NextCall(c)
    /\ \E job \in Jobs(variant) : BeginRender(c, c, job)
    /\ preview' = [preview EXCEPT !.isRendering = TRUE, !.videoUrl = FALSE]
    /\ UNCHANGED <<variant, pipelineVars, ai, uiVars>>

\* fault: the Render Video button stays active during a render
ClickRender_Always(c) ==
    /\ NextCall(c)
    /\ \E job \in Jobs(variant) : BeginRender(c, preview.mount, job)
    /\ preview' = [preview EXCEPT !.isRendering = TRUE, !.videoUrl = FALSE]
    /\ UNCHANGED <<variant, pipelineVars, ai, uiVars>>

\* the Render Video button, shown while !isRendering && !videoUrl
ClickRender(c) ==
    /\ NextCall(c)
    /\ ~preview.isRendering /\ ~preview.videoUrl
    /\ \E job \in Jobs(variant) : BeginRender(c, preview.mount, job)
    /\ preview' = [preview EXCEPT !.isRendering = TRUE, !.videoUrl = FALSE]
    /\ UNCHANGED <<variant, pipelineVars, ai, uiVars>>

\* Start Over (shown with the finished video), then the flow reaches a
\* freshly mounted PreviewPanel again
StartOver ==
    /\ preview.videoUrl
    /\ \E c \in DOMAIN calls : calls[c].pc = "idle"
    /\ preview' = [mount |-> preview.mount + 1, isRendering |-> FALSE,
                   videoUrl |-> FALSE]
    /\ UNCHANGED <<variant, ffmpeg, insts, calls, lastProgress, pipelineVars, ai, uiVars>>

\* await ffmpeg.load(...) resolves; `return ffmpeg` reads the module
\* variable; renderVideo goes on with onProgress(0)
LoadOk(c) ==
    /\ calls[c].pc = "loading"
    /\ insts' = [insts EXCEPT ![calls[c].created].loaded = TRUE]
    /\ calls' = [calls EXCEPT ![c] = [@ EXCEPT !.pc = "write", !.inst = ffmpeg]]
    /\ lastProgress' = OwnProgress(c, calls[c].cb, 0)
    /\ UNCHANGED <<variant, ffmpeg, preview, pipelineVars, ai, uiVars>>

\* await ffmpeg.load(...) rejects
LoadFails(c) ==
    /\ calls[c].pc = "loading"
    /\ RenderFailed(c, "load")
    /\ UNCHANGED <<variant, ffmpeg, insts, lastProgress, pipelineVars, ai, uiVars>>

\* the writeFile calls of the render
WriteInputs(c) ==
    /\ calls[c].pc = "write"
    /\ insts[calls[c].inst].loaded
    /\ LET names == InputNames(variant, calls[c].job)
       IN /\ insts' = [insts EXCEPT ![calls[c].inst].fs = WriteFiles(@, names, c)]
          /\ calls' = [calls EXCEPT ![c] = [@ EXCEPT !.pc = "exec", !.wrote = names]]
    /\ UNCHANGED <<variant, ffmpeg, preview, lastProgress, pipelineVars, ai, uiVars>>

\* writeFile on an instance that is not loaded rejects
WriteFails(c) ==
    /\ calls[c].pc = "write"
    /\ ~insts[calls[c].inst].loaded
    /\ RenderFailed(c, "write")
    /\ UNCHANGED <<variant, ffmpeg, insts, lastProgress, pipelineVars, ai, uiVars>>

\* the encoder reports progress: the handler registered on the instance runs
Progress(c) ==
    /\ calls[c].pc = "exec"
    /\ \E p \in ProgressVals :
          lastProgress' = [call |-> c, to |-> insts[calls[c].inst].handler,
                           value |-> RoundPercent(p), encoder |-> TRUE]
    /\ UNCHANGED <<variant, ffmpeg, insts, calls, preview, pipelineVars, ai, uiVars>>

\* await exec(command) resolves after the encoder wrote output.mp4;
\* renderVideo goes on with onProgress(100)
ExecOk(c) ==
    /\ calls[c].pc = "exec"
    /\ insts' = [insts EXCEPT ![calls[c].inst].fs = WriteFiles(@, {OutputName}, c)]
    /\ calls' = [calls EXCEPT ![c] = [@ EXCEPT !.pc = "read",
                                              !.wrote = @ \cup {OutputName}]]
    /\ lastProgress' = OwnProgress(c, calls[c].cb, 100)
    /\ UNCHANGED <<variant, ffmpeg, preview, pipelineVars, ai, uiVars>>

\* await exec(command) resolves with the encoder's error code, which
\* renderVideo does not look at; the encoder may have begun output.mp4
ExecErrorCode(c) ==
    /\ calls[c].pc = "exec"
    /\ \E partial \in BOOLEAN :
          /\ insts' = IF partial
                      THEN [insts EXCEPT ![calls[c].inst].fs = WriteFiles(@, {OutputName}, c)]
                      ELSE insts
          /\ calls' = [calls EXCEPT ![c] =
                          [@ EXCEPT !.pc = "read", !.execCode = 1,
                                    !.wrote = IF partial THEN @ \cup {OutputName} ELSE @]]
    /\ lastProgress' = OwnProgress(c, calls[c].cb, 100)
    /\ UNCHANGED <<variant, ffmpeg, preview, pipelineVars, ai, uiVars>>

\* await exec(command) rejects; the encoder may have begun output.mp4
ExecThrows(c) ==
    /\ calls[c].pc = "exec"
    /\ \E partial \in BOOLEAN :
          /\ insts' = IF partial
                      THEN [insts EXCEPT ![calls[c].inst].fs = WriteFiles(@, {OutputName}, c)]
                      ELSE insts
          /\ calls' = [calls EXCEPT ![c] =
                          [@ EXCEPT !.pc = "failed", !.result = "error",
                                    !.failedAt = "exec",
                                    !.wrote = IF partial THEN @ \cup {OutputName} ELSE @]]
    /\ preview' = [preview EXCEPT !.isRendering = FALSE]
    /\ UNCHANGED <<variant, ffmpeg, lastProgress, pipelineVars, ai, uiVars>>

\* const data = await readFile('output.mp4')
ReadOutput(c) ==
    /\ calls[c].pc = "read"
    /\ OutputName \in FsNames(calls[c].inst)
    /\ calls' = [calls EXCEPT ![c] =
                    [@ EXCEPT !.pc = "cleanup",
                              !.data = (CHOOSE f \in insts[calls[c].inst].fs :
                                            f.name = OutputName).by]]
    /\ UNCHANGED <<variant, ffmpeg, insts, preview, lastProgress, pipelineVars, ai, uiVars>>

\* readFile rejects: there is no output.mp4
ReadFails(c) ==
    /\ calls[c].pc = "read"
    /\ OutputName \notin FsNames(calls[c].inst)
    /\ RenderFailed(c, "read")
    /\ UNCHANGED <<variant, ffmpeg, insts, lastProgress, pipelineVars, ai, uiVars>>

\* listDir, then deleteFile for every file the filter lets through
CleanupOk(c) ==
    /\ calls[c].pc = "cleanup"
    /\ insts' = [insts EXCEPT ![calls[c].inst].fs =
                    {f \in @ : ~Deletable(variant, f.name)}]
    /\ calls' = [calls EXCEPT ![c] = [@ EXCEPT !.pc = "return"]]
    /\ UNCHANGED <<variant, ffmpeg, preview, lastProgress, pipelineVars, ai, uiVars>>

\* what a failing cleanup leaves of the deletable files D: all of them
\* (listDir, or the first deleteFile, rejects) or the one file whose
\* deleteFile rejects at the end of the loop
Leftovers(D) == {D} \cup {{f} : f \in D}

\* fault: a failing cleanup is rethrown to the caller
CleanupFails_Rethrow(c) ==
    /\ calls[c].pc = "cleanup"
    /\ calls' = [calls EXCEPT ![c] = [@ EXCEPT !.pc = "failed", !.result = "error",
                                              !.failedAt = "cleanup",
                                              !.cleanupFailed = TRUE]]
    /\ preview' = [preview EXCEPT !.isRendering = FALSE]
    /\ UNCHANGED <<variant, ffmpeg, insts, lastProgress, pipelineVars, ai, uiVars>>

\* listDir or a deleteFile rejects: deletable files stay; the catch logs
\* and the function goes on
CleanupFails(c) ==
    /\ calls[c].pc = "cleanup"
    /\ \E stay \in Leftovers({f \in insts[calls[c].inst].fs : Deletable(variant, f.name)}) :
          /\ stay # {}
          /\ insts' = [insts EXCEPT ![calls[c].inst].fs =
                          {f \in @ : ~Deletable(variant, f.name)} \cup stay]
    /\ calls' = [calls EXCEPT ![c] = [@ EXCEPT !.pc = "return", !.cleanupFailed = TRUE]]
    /\ UNCHANGED <<variant, ffmpeg, preview, lastProgress, pipelineVars, ai, uiVars>>

\* return new Blob([data]); handleRenderVideo stores the video URL
ReturnBlob(c) ==
    /\ calls[c].pc = "return"
    /\ calls' = [calls EXCEPT ![c] = [@ EXCEPT !.pc = "done", !.result = "blob",
                                              !.blob = calls[c].data]]
    /\ preview' = [preview EXCEPT !.isRendering = FALSE, !.videoUrl = TRUE]
    /\ UNCHANGED <<variant, ffmpeg, insts, lastProgress, pipelineVars, ai, uiVars>>

RenderStep(c) ==
    \/ LoadOk(c)
    \/ LoadFails(c)
    \/ WriteInputs(c)
    \/ Progress(c)
    \/ ExecOk(c)
    \/ ExecErrorCode(c)
    \/ ExecThrows(c)
    \/ ReadOutput(c)
    \/ ReadFails(c)
    \/ CleanupOk(c)
    \/ CleanupFails(c)
    \/ ReturnBlob(c)

\* renderVideo as a function any caller may call at any time
NextCalls ==
    \E c \in 1..MaxCalls :
        \/ CallRenderVideo(c)
        \/ RenderStep(c)
        \/ WriteFails(c)

SpecCalls == InitRuntime /\ [][NextCalls]_vars

\* renderVideo as the preview panel calls it
NextPanel ==
    \/ StartOver
    \/ \E c \in 1..MaxCalls :
          \/ ClickRender(c)
          \/ RenderStep(c)

SpecPanel == InitRuntime /\ [][NextPanel]_vars

(***************************************************************************)
(* Claims about the render orchestrator                                    *)
(***************************************************************************)
Instances == 1..Len(insts)
LoadedInstances == {i \in Instances : insts[i].loaded}
Calls == DOMAIN calls

\* C12: across any sequence of renderVideo calls in one process, including
\* a call that starts while an earlier call's load has not completed, the
\* encoder runtime is created once and loaded once: there is never a second
\* instance, and never a second loaded one.
C12_AsStated ==
    /\ Len(insts) <= 1
    /\ Cardinality(LoadedInstances) <= 1

InFlight(c) == calls[c].pc \notin {"idle", "done", "failed"}
Ended(c) == calls[c].pc \in {"done", "failed"}

\* the runtime instance a render works against
UsesInstance(c) == IF calls[c].inst # 0 THEN calls[c].inst ELSE calls[c].created

\* the files of render c that are in the file system of its instance
FilesOf(c) ==
    IF calls[c].inst = 0 THEN {}
    ELSE {f \in insts[calls[c].inst].fs : f.by = c}

\* C13: whatever the user does in the preview panel, no two renders are in
\* flight against the same runtime instance.
C13_NoInterleaving ==
    \A c, d \in Calls :
        (c # d /\ InFlight(c) /\ InFlight(d)) => UsesInstance(c) # UsesInstance(d)

\* a later render is working on the instance an ended render used
C13_Witness ==
    \E c, d \in Calls :
        /\ Ended(c) /\ calls[d].pc = "exec"
        /\ calls[c].inst # 0 /\ calls[d].inst = calls[c].inst

\* C14: once a render has read its output and its cleanup did not fail,
\* none of the files it wrote (input images, audio.wav, concat.txt,
\* output.mp4) is left in the runtime's file system.
C14_NoTempFilesLeft ==
    \A c \in Calls :
        (calls[c].pc \in {"return", "done"} /\ ~calls[c].cleanupFailed)
            => FilesOf(c) = {}

\* a render that wrote concat.txt has returned after a clean cleanup
C14_Witness ==
    \E c \in Calls :
        /\ calls[c].pc = "done" /\ ~calls[c].cleanupFailed
        /\ Tok("concat.txt") \in calls[c].wrote
        /\ Tok("audio.wav") \in calls[c].wrote
        /\ OutputName \in calls[c].wrote

\* C15: a failing cleanup is not escalated: the render goes on to return,
\* and what it returns is the blob of the data read before the cleanup.
C15_CleanupFailureSwallowed ==
    \A c \in Calls :
        calls[c].cleanupFailed =>
            /\ calls[c].pc \in {"return", "done"}
            /\ calls[c].data # 0
            /\ calls[c].pc = "done" =>
                  (calls[c].result = "blob" /\ calls[c].blob = calls[c].data)

\* a render returned its blob although its cleanup left files behind
C15_Witness ==
    \E c \in Calls :
        /\ calls[c].cleanupFailed /\ calls[c].pc = "done"
        /\ calls[c].result = "blob"
        /\ FilesOf(c) # {}

\* the encoder run of render c failed
ExecFailed(c) == calls[c].failedAt = "exec" \/ calls[c].execCode # 0

\* C16: when the encoder run fails, renderVideo returns no blob, and the
\* render's temporary files are gone when the failure reaches the caller.
C16_AsStated ==
    \A c \in Calls :
        (ExecFailed(c) /\ Ended(c)) =>
            (calls[c].result # "blob" /\ FilesOf(c) = {})

\* C17: every progress event reaches the onProgress callback of the call
\* that is rendering, with a value in 0..100, also when the runtime was
\* already loaded when the call began.
C17_AsStated ==
    lastProgress.call # 0 =>
        /\ lastProgress.to = calls[lastProgress.call].cb
        /\ lastProgress.value \in 0..100

(***************************************************************************)
(* The AI service wrappers generateTimings and getSubjectCrops: what they  *)
(* make of the text the service answers with.                              *)
(***************************************************************************)
MaxBoxes == 4       \* most boxes in one crop-detection response

\* JSON values as far as the wrappers tell them apart
Num(n) == [t |-> "number", v |-> n]
NotNum == [t |-> "string", v |-> 0]

\* response.text that JSON.parse rejects, and one that parses to an object
Unparseable == [kind |-> "unparseable", items |-> <<>>]
NotAnArray == [kind |-> "object", items |-> <<>>]
ArrayOf(items) == [kind |-> "array", items |-> items]

TimingItems == [panel : {Num(1), Num(2), NotNum},
                startTime : {Num(0), Num(30004), NotNum}]

TimingResponses ==
    {Unparseable, NotAnArray} \cup {ArrayOf(items) : items \in SeqsUpTo(TimingItems, MaxTimings)}

\* the Error thrown from the catch block
ParseFailure == [threw |-> TRUE, timings |-> <<>>]

\* fault: the first start time is left as the service gave it
generateTimings_Unforced(panelCount, response) ==
    IF panelCount = 1
    THEN [threw |-> FALSE, timings |-> <<[panel |-> 1, startTime |-> 0]>>]
    ELSE IF response.kind # "array" THEN ParseFailure
    ELSE LET items == response.items
         IN IF \E i \in 1..Len(items) :
                   items[i].panel.t # "number" \/ items[i].startTime.t # "number"
            THEN ParseFailure
            ELSE [threw |-> FALSE,
                  timings |-> [i \in 1..Len(items) |->
                                  [panel |-> items[i].panel.v,
                                   startTime |-> items[i].startTime.v]]]

\* generateTimings: the single-panel shortcut, else parse, validate and
\* force the first start time to 0
generateTimings(panelCount, response) ==
    IF panelCount = 1
    THEN [threw |-> FALSE, timings |-> <<[panel |-> 1, startTime |-> 0]>>]
    ELSE IF response.kind # "array" THEN ParseFailure
    ELSE LET items == response.items
         IN IF \E i \in 1..Len(items) :
                   items[i].panel.t # "number" \/ items[i].startTime.t # "number"
            THEN ParseFailure
            ELSE [threw |-> FALSE,
                  timings |-> [i \in 1..Len(items) |->
                                  [panel |-> items[i].panel.v,
                                   startTime |-> IF i = 1 THEN 0
                                                 ELSE items[i].startTime.v]]]

Min(a, b) == IF a < b THEN a ELSE b

\* boxes the service may answer with: inside the image, hanging over the
\* right and bottom edges, with a negative origin, empty, and right of
\* the image
ResponseBoxes ==
    {Crop(0, 0, 400, 600),
     Crop(400, 600, ImageWidth, ImageHeight),
     Crop(-50, -20, 300, 300),
     Crop(100, 100, 0, 200),
     Crop(ImageWidth + 100, 0, 200, 200)}

CropResponses ==
    {Unparseable, NotAnArray} \cup {ArrayOf(items) : items \in SeqsUpTo(ResponseBoxes, MaxBoxes)}

\* the map callback of getSubjectCrops
ClampCrop(c, naturalWidth, naturalHeight) ==
    LET x == Max(0, c.x)
        y == Max(0, c.y)
    IN Crop(x, y, Min(naturalWidth - x, c.w), Min(naturalHeight - y, c.h))

FullImage(naturalWidth, naturalHeight) == Crop(0, 0, naturalWidth, naturalHeight)

\* fault: no fallback when no box survives
getSubjectCrops_NoFallback(naturalWidth, naturalHeight, response) ==
    IF response.kind # "array" THEN <<FullImage(naturalWidth, naturalHeight)>>
    ELSE SelectSeq([i \in 1..Len(response.items) |->
                       ClampCrop(response.items[i], naturalWidth, naturalHeight)],
                   LAMBDA c : c.w > 0 /\ c.h > 0)

\* getSubjectCrops once the image has loaded and the service has answered
getSubjectCrops(naturalWidth, naturalHeight, response) ==
    IF response.kind # "array" THEN <<FullImage(naturalWidth, naturalHeight)>>
    ELSE LET validatedCrops ==
                 SelectSeq([i \in 1..Len(response.items) |->
                               ClampCrop(response.items[i], naturalWidth, naturalHeight)],
                           LAMBDA c : c.w > 0 /\ c.h > 0)
         IN IF Len(validatedCrops) = 0
            THEN <<FullImage(naturalWidth, naturalHeight)>>
            ELSE validatedCrops

\* image sizes: the panel size of the pipeline, and a small one
ImageSizes == {<<ImageWidth, ImageHeight>>, <<300, 250>>}

\* the calls of the wrappers, with the answer of the service, before they ran
PendingCalls ==
    {[fn |-> "generateTimings", done |-> FALSE, panelCount |-> panelCount,
      audioDuration |-> D, response |-> response, out |-> ParseFailure] :
        panelCount \in 1..NumPanels, D \in DurationVals, response \in TimingResponses}
    \cup
    {[fn |-> "getSubjectCrops", done |-> FALSE, naturalWidth |-> size[1],
      naturalHeight |-> size[2], response |-> response, out |-> <<>>] :
        size \in ImageSizes, response \in CropResponses}

InitAI ==
    /\ pc = "ai" /\ entry = "ai"
    /\ timings = <<>> /\ audioDuration = 0 /\ editedClips = <<>>
    /\ render1 = NotRendered1 /\ render2 = NotRendered2
    /\ RuntimeIdle
    /\ ai \in PendingCalls
    /\ UiIdle

\* generateTimings runs on the answer of the service
GenerateTimings ==
    /\ ai.fn = "generateTimings" /\ ~ai.done
    /\ ai' = [ai EXCEPT !.done = TRUE,
                        !.out = generateTimings(ai.panelCount, ai.response)]
    /\ UNCHANGED <<pipelineVars, runtimeVars, uiVars>>

\* getSubjectCrops runs on the loaded image and the answer of the service
GetSubjectCrops ==
    /\ ai.fn = "getSubjectCrops" /\ ~ai.done
    /\ ai' = [ai EXCEPT !.done = TRUE,
                        !.out = getSubjectCrops(ai.naturalWidth, ai.naturalHeight,
                                                ai.response)]
    /\ UNCHANGED <<pipelineVars, runtimeVars, uiVars>>

NextAI ==
    \/ GenerateTimings
    \/ GetSubjectCrops

SpecAI == InitAI /\ [][NextAI]_vars

(***************************************************************************)
(* Claims about the AI service wrappers                                    *)
(***************************************************************************)
\* C18: when generateTimings returns, the first entry of the array has
\* startTime 0 whatever the service answered for it; for panelCount = 1 it
\* returns exactly <<(panel 1, startTime 0)>>, and the one clip built from
\* that spans the whole audio duration.
C18_FirstStartsAtZero ==
    (ai.fn = "generateTimings" /\ ai.done /\ ~ai.out.threw) =>
        /\ Len(ai.out.timings) > 0 => ai.out.timings[1].startTime = 0
        /\ ai.panelCount = 1 =>
              /\ ai.out.timings = <<[panel |-> 1, startTime |-> 0]>>
              /\ LET clips == AssembleClips(ai.out.timings, ai.audioDuration,
                                            [p \in {1} |-> <<FullCrop>>], 1)
                 IN /\ Len(clips) = 1
                    /\ clips[1].startTime = 0
                    /\ clips[1].duration = ai.audioDuration

\* the service gave the first entry a start time other than 0
C18_Witness ==
    /\ ai.fn = "generateTimings" /\ ai.done /\ ~ai.out.threw
    /\ ai.panelCount # 1
    /\ Len(ai.response.items) > 1
    /\ ai.response.items[1].startTime = Num(30004)
    /\ ai.out.timings[1].startTime = 0

\* a box that lies inside a naturalWidth x naturalHeight image
Clamped(c, naturalWidth, naturalHeight) ==
    /\ c.x >= 0 /\ c.y >= 0 /\ c.w > 0 /\ c.h > 0
    /\ c.x + c.w <= naturalWidth /\ c.y + c.h <= naturalHeight

\* C19: for every image and every parseable response, getSubjectCrops
\* returns between 1 and 3 boxes, each inside the image.
C19_AsStated ==
    (ai.fn = "getSubjectCrops" /\ ai.done /\ ai.response.kind = "array") =>
        /\ Len(ai.out) \in 1..3
        /\ \A i \in 1..Len(ai.out) : Clamped(ai.out[i], ai.naturalWidth, ai.naturalHeight)

\* no box of the response survives the clamping
NoneSurvives(response, naturalWidth, naturalHeight) ==
    \A i \in 1..Len(response.items) :
        LET c == ClampCrop(response.items[i], naturalWidth, naturalHeight)
        IN ~(c.w > 0 /\ c.h > 0)

\* C20: when the response is unparseable, is empty, or has no box that
\* survives the clamping, getSubjectCrops returns exactly the full-image
\* box (0, 0, naturalWidth, naturalHeight).
C20_FullImageFallback ==
    (/\ ai.fn = "getSubjectCrops" /\ ai.done
     /\ \/ ai.response.kind # "array"
        \/ NoneSurvives(ai.response, ai.naturalWidth, ai.naturalHeight)) =>
        ai.out = <<Crop(0, 0, ai.naturalWidth, ai.naturalHeight)>>

\* boxes were answered, and none of them survived
C20_Witness ==
    /\ ai.fn = "getSubjectCrops" /\ ai.done
    /\ ai.response.kind = "array" /\ Len(ai.response.items) > 1
    /\ NoneSurvives(ai.response, ai.naturalWidth, ai.naturalHeight)
    /\ ai.out = <<Crop(0, 0, ai.naturalWidth, ai.naturalHeight)>>

(***************************************************************************)
(* The crop panel: CropPanel and its CropEditor.                           *)
(*                                                                         *)
(* The clips edited are those of the App (editedClips); pointer distances  *)
(* are given in image pixels (dx, dy after the scaleX / scaleY factors).   *)
(* activeClipIndex is 1-based here.  A crop's id is that of the detection  *)
(* result it came from: the source image and the position in its list.     *)
(***************************************************************************)
MinCropSize == 50

\* a region in the lower right corner, narrower and lower than MinCropSize
EdgeCrop == Crop(ImageWidth - 30, ImageHeight - 20, 30, 20)

\* what crop detection cached for an image
CachedCrops == {<<CropA, CropB>>, <<CropA, EdgeCrop>>}

\* source images of the clips the panel opens with: the first and the last
\* clip show the same image
EditorPanelIds == <<1, NumPanels, 1>>

NoDrag == [id |-> <<0, 0>>, type |-> "none", cropStart |-> Crop(0, 0, 0, 0)]

CropId(clip, k) == <<clip.panelId, k>>

\* pointer travel since the mouse went down, in image pixels
DragDeltas == {<<-500, -500>>, <<40, 40>>}

InitCrop ==
    /\ pc = "crop" /\ entry = "crop"
    /\ timings = <<>> /\ audioDuration = 0
    /\ render1 = NotRendered1 /\ render2 = NotRendered2
    /\ RuntimeIdle
    /\ ai = NoAiCall
    /\ app = NoApp /\ aiLog = <<>>
    /\ \E cache \in [1..NumPanels -> CachedCrops] :
          editedClips = Contiguous([i \in 1..Len(EditorPanelIds) |->
                                       [duration |-> 100000,
                                        panelId |-> EditorPanelIds[i],
                                        crops |-> cache[EditorPanelIds[i]]]], 0)
    /\ editor = [mounted |-> TRUE, activeClipIndex |-> 1, draggingInfo |-> NoDrag,
                 drags |-> 0]

\* fault: the new crops are written into the list the clips of one image share
handleCropChange_Shared(clips, clipIndex, newCrops) ==
    [i \in 1..Len(clips) |->
        IF clips[i].panelId = clips[clipIndex].panelId
        THEN [clips[i] EXCEPT !.crops = newCrops]
        ELSE clips[i]]

\* handleCropChange: a copy of the clip list with clip clipIndex replaced
handleCropChange(clips, clipIndex, newCrops) ==
    [clips EXCEPT ![clipIndex] = [@ EXCEPT !.crops = newCrops]]

\* the crop the drag produces from cropStart
DraggedCrop(info, dx, dy, naturalWidth, naturalHeight) ==
    LET cs == info.cropStart
    IN IF info.type = "move"
       THEN Crop(Max(0, Min(naturalWidth - cs.w, cs.x + dx)),
                 Max(0, Min(naturalHeight - cs.h, cs.y + dy)),
                 cs.w, cs.h)
       ELSE Crop(cs.x, cs.y,
                 Max(MinCropSize, Min(naturalWidth - cs.x, cs.w + dx)),
                 Max(MinCropSize, Min(naturalHeight - cs.y, cs.h + dy)))

ActiveClip == editedClips[editor.activeClipIndex]

\* handleMouseDown on crop k (move) or on its handle (resize)
MouseDown(k, type) ==
    /\ editor.draggingInfo = NoDrag
    /\ editor.drags < MaxDrags
    /\ k \in 1..Len(ActiveClip.crops)
    /\ editor' = [editor EXCEPT
                     !.draggingInfo = [id |-> CropId(ActiveClip, k), type |-> type,
                                       cropStart |-> ActiveClip.crops[k]],
                     !.drags = @ + 1]
    /\ UNCHANGED <<pipelineVars, runtimeVars, ai, app, aiLog>>

\* handleMouseMove: the crop with the dragged id is recomputed from
\* cropStart, and the new list goes to handleCropChange for the active clip
MouseMove(d) ==
    /\ editor.draggingInfo # NoDrag
    /\ LET clip == ActiveClip
           newCrops == [k \in 1..Len(clip.crops) |->
                           IF CropId(clip, k) = editor.draggingInfo.id
                           THEN DraggedCrop(editor.draggingInfo, d[1], d[2],
                                            ImageWidth, ImageHeight)
                           ELSE clip.crops[k]]
       IN editedClips' = handleCropChange(editedClips, editor.activeClipIndex, newCrops)
    /\ UNCHANGED <<pc, entry, timings, audioDuration, render1, render2,
                   runtimeVars, ai, uiVars>>

\* handleMouseUp
MouseUp ==
    /\ editor.draggingInfo # NoDrag
    /\ editor' = [editor EXCEPT !.draggingInfo = NoDrag]
    /\ UNCHANGED <<pipelineVars, runtimeVars, ai, app, aiLog>>

\* handleNextClip
NextClip ==
    /\ editor.activeClipIndex < Len(editedClips)
    /\ editor' = [editor EXCEPT !.activeClipIndex = @ + 1]
    /\ UNCHANGED <<pipelineVars, runtimeVars, ai, app, aiLog>>

\* handlePrevClip
PrevClip ==
    /\ editor.activeClipIndex > 1
    /\ editor' = [editor EXCEPT !.activeClipIndex = @ - 1]
    /\ UNCHANGED <<pipelineVars, runtimeVars, ai, app, aiLog>>

NextCrop ==
    \/ \E k \in 1..2, type \in {"move", "resize"} : MouseDown(k, type)
    \/ \E d \in DragDeltas : MouseMove(d)
    \/ MouseUp
    \/ NextClip
    \/ PrevClip

SpecCrop == InitCrop /\ [][NextCrop]_vars

(***************************************************************************)
(* Claims about the crop panel                                             *)
(***************************************************************************)
\* C21: every user edit preserves the crop-region invariant: after any
\* sequence of move and resize drags, every crop region of every clip has
\* 0 <= x, 0 <= y, w > 0, h > 0, x + w <= imageWidth, y + h <= imageHeight.
C21_AsStated ==
    editor.mounted =>
        \A i \in 1..Len(editedClips) :
            \A k \in 1..Len(editedClips[i].crops) :
                Clamped(editedClips[i].crops[k], ImageWidth, ImageHeight)

\* C26: changing the crop regions of one clip leaves the crop regions of
\* every other clip as they were, also those of clips that show the same
\* source image and got their crops from the same cached detection result.
C26_OthersUnchanged ==
    [][editor.mounted =>
         \A i \in 1..Len(editedClips) :
             i # editor.activeClipIndex => editedClips'[i] = editedClips[i]]_vars

\* two clips of one source image no longer have the same crop regions
C26_Witness ==
    /\ editor.mounted
    /\ \E i, j \in 1..Len(editedClips) :
          /\ editedClips[i].panelId = editedClips[j].panelId
          /\ editedClips[i].crops # editedClips[j].crops

(***************************************************************************)
(* Claims about the timeline builder and the filter graph, second part     *)
(***************************************************************************)
\* the entries whose startTime is not greater than their predecessor's
Offenders(ts) == {i \in 2..Len(ts) : ts[i].startTime <= ts[i - 1].startTime}

\* C23: for a timing array with a non-monotonic startTime the timeline
\* builder (animatePanels, renderWithConcat) does not abort, every clip it
\* produces is longer than 0.01 s, and the clips are the remaining entries:
\* none of them was built from an offending entry.
C23_AsStated ==
    (entry = "app" /\ AllInRange(timings) /\ Offenders(timings) # {}) =>
        LET k == KeptIndices(timings, audioDuration)
        IN /\ pc # "threw"
           /\ Animated =>
                 /\ Len(editedClips) = Len(k)
                 /\ \A j \in 1..Len(editedClips) :
                       /\ editedClips[j].duration > MinDuration
                       /\ editedClips[j].startTime = timings[k[j]].startTime
                       /\ k[j] \notin Offenders(timings)
           /\ render1.path = "concat" =>
                 /\ Len(render1.concat) = Len(k)
                 /\ \A j \in 1..Len(render1.concat) :
                       /\ render1.concat[j].duration > MinDuration
                       /\ k[j] \notin Offenders(timings)
\* the number that follows -t in a command
ClampValue(cmd) == cmd[(CHOOSE k \in 1..Len(cmd) : cmd[k] = Tok("-t")) + 1].n

\* C28: for every timing array with in-range panel indices and first
\* startTime 0, increasing or not, the durations of the clips of the
\* timeline builder sum to at most the audio duration D, and so does the
\* -t value that renderVideo computes from them.
C28_AsStated ==
    (/\ entry = "app" /\ AllInRange(timings)
     /\ Len(timings) >= 1 /\ timings[1].startTime = 0) =>
        /\ Animated => totalDuration(editedClips) <= audioDuration
        /\ render2.ran => ClampValue(render2.command) <= audioDuration
\* `[k:v]` with k the slot of an image input
IsImageSlot(l, numImages) == l.s = ":v" /\ l.b = 1 /\ l.n \in 0..(numImages - 1)

\* every label a clause consumes is an image slot or the output, with the
\* same text, of exactly one earlier clause
LabelsResolve(graph, numImages) ==
    \A c \in 1..Len(graph) :
        \A j \in 1..Len(graph[c].ins) :
            \/ IsImageSlot(graph[c].ins[j], numImages)
            \/ Cardinality({k \in 1..(c - 1) : graph[k].out = graph[c].ins[j]}) = 1

\* C24: in every filter graph renderVideo builds, each label a clause
\* consumes is an input slot k:v with k below the number of image inputs,
\* or a label that exactly one earlier clause emits with the same text.
C24_AsStated ==
    /\ render2.ran =>
          LabelsResolve(render2.graph, Len(uniquePanels2(editedClips)))
    /\ RanTransitions =>
          LabelsResolve(render1.graph, Len(uniquePanels1(render1.items)))

OutputsDistinct(graph) ==
    \A k, l \in 1..Len(graph) : k # l => graph[k].out # graph[l].out

\* the clauses that emit the stream of clip number i (0-based)
EmitsClipStream(graph, l) == {k \in 1..Len(graph) : StripBrackets(graph[k].out) = StripBrackets(l)}

\* C25: each clip has exactly one clause that emits its output stream, and
\* the output labels of one filter graph (crop sub-streams, hstack streams,
\* clip streams, intermediate crossfade streams, final stream) are pairwise
\* distinct.
C25_AsStated ==
    /\ render2.ran =>
          /\ OutputsDistinct(render2.graph)
          /\ \A i \in 1..Len(editedClips) :
                Cardinality(EmitsClipStream(render2.graph, clipOutputStream(i - 1))) = 1
    /\ RanTransitions =>
          /\ OutputsDistinct(render1.graph)
          /\ \A i \in 1..Len(render1.items) :
                Cardinality(EmitsClipStream(render1.graph, clipStreams(render1.items)[i])) = 1
\* the source images the timings reference
ReferencedImages(ts) == {ts[i].panel : i \in 1..Len(ts)}

\* C27: in one animatePanels pass, inpainting and crop detection run once
\* for each distinct source image the timings reference, however many
\* entries reference it, and every clip of an image carries the crops of
\* that one cached result.
C27_OncePerImage ==
    Animated =>
        /\ \A p \in ReferencedImages(timings) :
              Cardinality({k \in 1..Len(aiLog) : aiLog[k].panel = p}) = 1
        /\ \A k \in 1..Len(aiLog) : aiLog[k].panel \in ReferencedImages(timings)
        /\ \A j \in 1..Len(editedClips) :
              \E k \in 1..Len(aiLog) :
                  /\ aiLog[k].panel = editedClips[j].panelId
                  /\ aiLog[k].crops = editedClips[j].crops

\* two clips were built for one image, from three timing entries
C27_Witness ==
    /\ Animated
    /\ Len(timings) = 3 /\ Len(aiLog) = 2
    /\ \E i, j \in 1..Len(editedClips) :
          i # j /\ editedClips[i].panelId = editedClips[j].panelId

(***************************************************************************)
(* The App component: the step counter, the artifacts and the two          *)
(* asynchronous generation handlers.                                       *)
(*                                                                         *)
(* `variant` tells the two Apps apart: 1 is the timing-based one (steps    *)
(* 1..4), 2 the clip-based one (steps 1..5, with animatePanels and the     *)
(* crop panel).  A panel list is known by its number (0: the empty list);  *)
(* an artifact is known by the number of the panel list it was computed    *)
(* from (0: '', null or []), the audio by the handler that made it.        *)
(* While isLoading the Spinner overlay covers the page, which keeps the    *)
(* pointer from the controls below it; no control is disabled or removed,  *)
(* so the keyboard still reaches them.                                     *)
(***************************************************************************)
InputDevices == {"pointer", "keyboard"}

\* the control of the current step can be operated
Operable(via) == via = "pointer" => ~app.isLoading

PreviewStep == IF variant = 2 THEN 5 ELSE 4

InitApp ==
    /\ pc = "app" /\ entry = "app"
    /\ timings = <<>> /\ audioDuration = 0 /\ editedClips = <<>>
    /\ render1 = NotRendered1 /\ render2 = NotRendered2
    /\ variant \in {1, 2}
    /\ ffmpeg = 0 /\ insts = <<>> /\ calls = <<>>
    /\ preview = [mount |-> 1, isRendering |-> FALSE, videoUrl |-> FALSE]
    /\ lastProgress = NoProgress
    /\ ai = NoAiCall
    /\ editor = NoEditor /\ aiLog = <<>>
    /\ app = [mounted |-> TRUE, step |-> 1, panels |-> 0, lists |-> 0,
              script |-> 0, audio |-> 0, panelTimings |-> 0, editedClips |-> 0,
              isLoading |-> FALSE, handlers |-> <<>>]

AppFrame == UNCHANGED <<pipelineVars, runtimeVars, ai, editor, aiLog>>

\* a handler call that got past its guard: setIsLoading(true), then the
\* first await; the closure holds the panels and script of this render
StartHandler(a, kind) ==
    [a EXCEPT !.isLoading = TRUE,
              !.handlers = Append(@, [kind |-> kind, pc |-> kind,
                                      panels |-> a.panels, script |-> a.script,
                                      timings |-> 0, failedAt |-> "none"])]

\* the effect of ScriptPanel when it mounts: if (!script) onGenerate(language);
\* handleGenerateScript returns at once for an empty panel list
MountScriptPanel(a) ==
    IF a.script = 0 /\ a.panels # 0 /\ Len(a.handlers) < MaxHandlers
    THEN StartHandler(a, "script")
    ELSE a

\* handlePanelsChange
handlePanelsChange(a, newPanels) ==
    [a EXCEPT !.panels = newPanels, !.script = 0, !.audio = 0,
              !.panelTimings = 0, !.editedClips = 0]

\* ImagePanel: the user adds, removes or reorders panels; the list may
\* become empty
PanelsChange(via) ==
    /\ app.step = 1 /\ Operable(via)
    /\ app.lists < MaxPanelLists
    /\ \E toEmpty \in BOOLEAN :
          app' = [handlePanelsChange(app, IF toEmpty THEN 0 ELSE app.lists + 1)
                     EXCEPT !.lists = IF toEmpty THEN @ ELSE @ + 1]
    /\ AppFrame

\* handleNextToScript, and ScriptPanel mounting
NextToScript(via) ==
    /\ app.step = 1 /\ Operable(via)
    /\ app.panels # 0
    /\ app' = MountScriptPanel([app EXCEPT !.step = 2])
    /\ AppFrame

\* the Regenerate Script button -> handleGenerateScript
RegenerateScript(via) ==
    /\ app.step = 2 /\ Operable(via)
    /\ app.panels # 0
    /\ Len(app.handlers) < MaxHandlers
    /\ app' = StartHandler(app, "script")
    /\ AppFrame

\* the script textarea of ScriptPanel -> setScript: the user empties the
\* script, and the effect of ScriptPanel asks for a new one (an edit that
\* leaves text in it is still a script for the same panel list)
ClearScript(via) ==
    /\ app.step = 2 /\ Operable(via)
    /\ app.script # 0
    /\ app' = MountScriptPanel([app EXCEPT !.script = 0])
    /\ AppFrame

\* the Generate Voiceover button (disabled while !script) -> handleGenerateVoiceover
GenerateVoiceover(via) ==
    /\ app.step = 3 /\ Operable(via)
    /\ app.script # 0
    /\ Len(app.handlers) < MaxHandlers
    /\ app' = StartHandler(app, "voice")
    /\ AppFrame

\* handleBack, from the script, voiceover and crop panels
Back(via) ==
    /\ app.step \in {2, 3} \/ (app.step = 4 /\ variant = 2)
    /\ Operable(via)
    /\ app' = IF app.step = 3
              THEN MountScriptPanel([app EXCEPT !.step = 2])
              ELSE [app EXCEPT !.step = @ - 1]
    /\ AppFrame

\* handleNextFromCrop
NextFromCrop(via) ==
    /\ variant = 2 /\ app.step = 4 /\ Operable(via)
    /\ app' = [app EXCEPT !.step = 5]
    /\ AppFrame

\* handleReset, from Start Over on the preview panel
Reset(via) ==
    /\ app.step = PreviewStep /\ Operable(via)
    /\ app' = [handlePanelsChange(app, 0) EXCEPT !.step = 1]
    /\ AppFrame

InFlightAt(q, at) == q \in 1..Len(app.handlers) /\ app.handlers[q].pc = at

\* await generateScript resolves: setScript, setStep(3), finally
ScriptOk(q) ==
    /\ InFlightAt(q, "script")
    /\ app' = [app EXCEPT !.script = app.handlers[q].panels, !.step = 3,
                          !.isLoading = FALSE, !.handlers[q].pc = "done"]
    /\ AppFrame

\* fault: a failed handler moves on to the next step all the same
HandlerFails_Advance(q, at) ==
    /\ InFlightAt(q, at)
    /\ app' = [app EXCEPT !.isLoading = FALSE, !.step = @ + 1,
                          !.handlers[q].pc = "failed",
                          !.handlers[q].failedAt = at]
    /\ AppFrame

\* an await of the handler rejects, or the audio element fires `error`:
\* the catch block, or onerror, alerts and resets the loading flag
HandlerFails(q, at) ==
    /\ InFlightAt(q, at)
    /\ app' = [app EXCEPT !.isLoading = FALSE, !.handlers[q].pc = "failed",
                          !.handlers[q].failedAt = at]
    /\ AppFrame

\* await generateVoiceover resolves: setAudioUrl, setAudioBlob, new Audio(url)
VoiceOk(q) ==
    /\ InFlightAt(q, "voice")
    /\ app' = [app EXCEPT !.audio = q, !.handlers[q].pc = "metadata"]
    /\ AppFrame

\* the audio element fires loadedmetadata: generateTimings is called
LoadedMetadata(q) ==
    /\ InFlightAt(q, "metadata")
    /\ app' = [app EXCEPT !.handlers[q].pc = "timings"]
    /\ AppFrame

\* await generateTimings resolves, with timings for the panel count of the
\* closure (possibly none): setPanelTimings; then setStep(4) and finally
\* (timing-based) or the call of animatePanels (clip-based)
TimingsOk(q) ==
    /\ InFlightAt(q, "timings")
    /\ \E some \in BOOLEAN :
          LET made == IF some THEN app.handlers[q].panels ELSE 0
          IN app' = IF variant = 1
                    THEN [app EXCEPT !.panelTimings = made, !.step = 4,
                                     !.isLoading = FALSE, !.handlers[q].pc = "done"]
                    ELSE [app EXCEPT !.panelTimings = made,
                                     !.handlers[q].timings = made,
                                     !.handlers[q].pc = "animate"]
    /\ AppFrame

\* await animatePanels resolves: setEditedClips, setStep(4), finally
AnimateOk(q) ==
    /\ InFlightAt(q, "animate")
    /\ \E some \in BOOLEAN :
          app' = [app EXCEPT !.editedClips = IF some THEN app.handlers[q].timings ELSE 0,
                             !.step = 4, !.isLoading = FALSE,
                             !.handlers[q].pc = "done"]
    /\ AppFrame

\* the crop-detection request of getSubjectCrops rejects inside img.onload:
\* the promise getSubjectCrops returned is never settled, and the await in
\* animatePanels never returns
CropRequestRejects(q) ==
    /\ InFlightAt(q, "animate")
    /\ app.handlers[q].timings # 0
    /\ app' = [app EXCEPT !.handlers[q].pc = "hung"]
    /\ AppFrame

\* the awaits of the handlers, in program order
AwaitPoints == {"script", "voice", "metadata", "timings", "animate"}

NextApp ==
    \/ \E via \in InputDevices :
          \/ PanelsChange(via)
          \/ NextToScript(via)
          \/ RegenerateScript(via)
          \/ ClearScript(via)
          \/ GenerateVoiceover(via)
          \/ Back(via)
          \/ NextFromCrop(via)
          \/ Reset(via)
    \/ \E q \in 1..MaxHandlers :
          \/ ScriptOk(q)
          \/ VoiceOk(q)
          \/ LoadedMetadata(q)
          \/ TimingsOk(q)
          \/ AnimateOk(q)
          \/ CropRequestRejects(q)
          \/ \E at \in AwaitPoints : HandlerFails(q, at)

SpecApp == InitApp /\ [][NextApp]_vars

\* C22: when a step of a generation handler fails (script, voice, audio
\* metadata, timings, AI edit), or the AI edit never returns, the step
\* counter and every artifact (panels, script, audio, timings, clips) keep
\* the values they had before the failure.
C22_HaltsAtFailingStep ==
    [][(\E q \in 1..Len(app.handlers) :
           /\ app.handlers[q].pc \in AwaitPoints
           /\ app'.handlers[q].pc \in {"failed", "hung"})
       => /\ app'.step = app.step
          /\ app'.panels = app.panels
          /\ app'.script = app.script
          /\ app'.audio = app.audio
          /\ app'.panelTimings = app.panelTimings
          /\ app'.editedClips = app.editedClips]_vars

\* a voiceover handler whose AI edit failed after its voice and its timings
\* were stored: the App is still on the voiceover step, with both in place
C22_Witness ==
    \E q \in 1..Len(app.handlers) :
        /\ app.handlers[q].pc = "failed"
        /\ app.handlers[q].failedAt = "animate"
        /\ app.step = 3
        /\ app.audio = q
        /\ app.panelTimings # 0

\* C29 (as stated): non-empty panel timings and non-empty edited clips were
\* computed from the current panel list.
C29_AsStated ==
    /\ app.panelTimings # 0 => app.panelTimings = app.panels
    /\ app.editedClips # 0 => app.editedClips = app.panels

\* C30 (as stated, in its finite form): while the loading flag is set, some
\* handler is still at an await that will settle, so that its finally
\* block, catch block or onerror resets the flag.
C30_AsStated ==
    app.isLoading => \E q \in 1..Len(app.handlers) : app.handlers[q].pc \in AwaitPoints

====
